---- MODULE Spec2Model ----
(***************************************************************************)
(* A model of nyc_study.py: the tabular transforms of the NYC income       *)
(* study (create_subset, remove_outliers, the column projections, the AGI  *)
(* recoding, the average-income derivation) and the CSV cache of the       *)
(* state- and city-filtered IRS subsets.                                   *)
(*                                                                         *)
(* A pandas DataFrame is a record [columns, index, data]: the column       *)
(* names in order, the row labels in order, and one tuple of cells per     *)
(* row, aligned with columns.  A cell is a tagged tuple, so that cells of  *)
(* different dtypes can be compared:                                       *)
(*     <<"int", n>>      an integer                                        *)
(*     <<"str", s>>      a string                                          *)
(*     <<"rat", n, d>>   a float, kept as the exact fraction n/d, d > 0,   *)
(*                       in lowest terms                                   *)
(*     <<"inf", s>>      the float +inf (s = 1) or -inf (s = -1)           *)
(*     <<"nan">>         the float NaN (pandas' missing value)             *)
(***************************************************************************)
EXTENDS Integers, Sequences, FiniteSets, TLC

VARIABLES
    pc,          \* where the modelled call or run stands
    data_frame,  \* the table passed to the function under study
    args,        \* the other arguments of the call
    result,      \* what the call returned or raised
    files,       \* the CSV files on disk, by name
    io,          \* the files and inputs the last call read and wrote
    ncalls,      \* the number of calls made so far
    stack,       \* the functions being executed, innermost first
    locals,      \* the local variables of perform_test and run_study
    heap         \* the table objects in memory, by identity

vars == <<pc, data_frame, args, result, files, io, ncalls, stack, locals, heap>>

(***************************************************************************)
(* Bounds of the model.                                                    *)
(***************************************************************************)
MaxSubsetRows == 2
MaxCount == 2

(***************************************************************************)
(* Module constants of nyc_study.py.                                       *)
(***************************************************************************)
AFRICAN == "african"
CAUCASIAN == "caucasian"
LATINO == "latino"
PCNT_AFRICAN == "pcnt_african"
PCNT_CAUCASIAN == "pcnt_caucasian"
PCNT_LATINO == "pcnt_latino"
STATE_NY == "NY"
ZIP_CODE == "zip_code"
AVERAGE_INCOME == "average_income"
RETURN_COUNT == "number_of_returns"
TOTAL_INCOME == "total_income_thsnds"

(***************************************************************************)
(* Cells and their arithmetic (numpy's element-wise float arithmetic on    *)
(* exact fractions).                                                       *)
(***************************************************************************)
IntCell(n) == <<"int", n>>
StrCell(s) == <<"str", s>>
NaN == <<"nan">>
Inf(s) == <<"inf", s>>

Abs(n) == IF n < 0 THEN -n ELSE n
Sign(n) == IF n < 0 THEN -1 ELSE IF n > 0 THEN 1 ELSE 0

RECURSIVE Gcd(_, _)
Gcd(a, b) == IF b = 0 THEN a ELSE Gcd(b, a % b)

\* The float n/d (d # 0) in lowest terms with a positive denominator.
Rat(n, d) ==
    LET g == Gcd(Abs(n), Abs(d))
        s == Sign(d)
    IN  <<"rat", (s * n) \div g, (s * d) \div g>>

IsNum(x) == x[1] \in {"int", "rat"}
IsNaN(x) == x[1] = "nan"
IsInf(x) == x[1] = "inf"
Num(x) == IF x[1] = "int" THEN x[2] ELSE x[2]
Den(x) == IF x[1] = "int" THEN 1 ELSE x[3]

\* x > n for a cell x and an integer n; NaN compares false.
CellGt(x, n) ==
    CASE IsNum(x) -> Num(x) > n * Den(x)
      [] IsInf(x) -> x[2] = 1
      [] OTHER    -> FALSE

\* x + y on int64 columns stays an integer; otherwise float addition.
CellAdd(x, y) ==
    CASE IsNaN(x) \/ IsNaN(y) -> NaN
      [] IsInf(x) /\ IsInf(y) -> IF x[2] = y[2] THEN x ELSE NaN
      [] IsInf(x) -> x
      [] IsInf(y) -> y
      [] x[1] = "int" /\ y[1] = "int" -> IntCell(x[2] + y[2])
      [] OTHER -> Rat(Num(x) * Den(y) + Num(y) * Den(x), Den(x) * Den(y))

\* x / y, true division: always a float; x/0 is +-inf and 0/0 is NaN.
CellDiv(x, y) ==
    CASE IsNaN(x) \/ IsNaN(y) -> NaN
      [] IsInf(x) /\ IsInf(y) -> NaN
      [] IsInf(x) -> Inf(x[2] * (IF Num(y) < 0 THEN -1 ELSE 1))
      [] IsInf(y) -> Rat(0, 1)
      [] Num(y) = 0 -> IF Num(x) = 0 THEN NaN ELSE Inf(Sign(Num(x)))
      [] OTHER -> Rat(Num(x) * Den(y), Den(x) * Num(y))

\* n - x for an integer (float literal) n.
CellRSub(n, x) ==
    CASE IsNaN(x) -> NaN
      [] IsInf(x) -> Inf(-x[2])
      [] OTHER -> Rat(n * Den(x) - Num(x), Den(x))

\* int -> float conversion of a cell.
Float(x) == IF IsNum(x) THEN Rat(Num(x), Den(x)) ELSE x

\* The sign of a float that is not NaN.
CellSign(x) == IF IsInf(x) THEN x[2] ELSE Sign(Num(x))

\* x - y, x * y and x <= y on floats; every comparison with NaN is false.
CellNeg(x) ==
    CASE IsNaN(x) -> NaN
      [] IsInf(x) -> Inf(-x[2])
      [] OTHER -> Rat(-Num(x), Den(x))

CellSub(x, y) == CellAdd(Float(x), CellNeg(y))

CellMul(x, y) ==
    CASE IsNaN(x) \/ IsNaN(y) -> NaN
      [] IsInf(x) \/ IsInf(y) ->
            IF CellSign(x) * CellSign(y) = 0 THEN NaN
            ELSE Inf(CellSign(x) * CellSign(y))
      [] OTHER -> Rat(Num(x) * Num(y), Den(x) * Den(y))

CellLe(x, y) ==
    CASE IsNaN(x) \/ IsNaN(y) -> FALSE
      [] IsInf(x) /\ IsInf(y) -> x[2] <= y[2]
      [] IsInf(x) -> x[2] = -1
      [] IsInf(y) -> y[2] = 1
      [] OTHER -> Num(x) * Den(y) <= Num(y) * Den(x)

(***************************************************************************)
(* DataFrame primitives.                                                   *)
(***************************************************************************)
DataFrame(columns, index, data) ==
    [columns |-> columns, index |-> index, data |-> data]

Range(s) == {s[i] : i \in DOMAIN s}

\* The position of the column labelled name (the first, were it repeated).
ColPos(df, name) ==
    CHOOSE i \in DOMAIN df.columns :
        /\ df.columns[i] = name
        /\ \A j \in DOMAIN df.columns : df.columns[j] = name => i <= j

HasCol(df, name) == name \in Range(df.columns)

\* df[name]: the Series of a column, as the tuple of its cells.
Series(df, name) ==
    [i \in DOMAIN df.data |-> df.data[i][ColPos(df, name)]]

RECURSIVE SelectIdx(_, _)
\* The positions of s whose mask bit is set, in order.
SelectIdx(mask, n) ==
    IF n = 0 THEN <<>>
    ELSE IF mask[n] THEN Append(SelectIdx(mask, n - 1), n)
         ELSE SelectIdx(mask, n - 1)

\* df[mask]: boolean-mask row selection; labels and row order are kept.
MaskRows(df, mask) ==
    LET keep == SelectIdx(mask, Len(df.data))
    IN  DataFrame(df.columns,
                  [k \in DOMAIN keep |-> df.index[keep[k]]],
                  [k \in DOMAIN keep |-> df.data[keep[k]]])

\* df[name] = series: overwrite the column, or append it when it is new.
SetCol(df, name, series) ==
    IF HasCol(df, name)
    THEN DataFrame(df.columns, df.index,
                   [i \in DOMAIN df.data |->
                       [df.data[i] EXCEPT ![ColPos(df, name)] = series[i]]])
    ELSE DataFrame(Append(df.columns, name), df.index,
                   [i \in DOMAIN df.data |-> Append(df.data[i], series[i])])

(***************************************************************************)
(* determine_percentage and create_subset.                                 *)
(***************************************************************************)
determine_percentage_other(numerator, other) ==
    [i \in DOMAIN numerator |-> CellDiv(numerator[i], other[i])]

determine_percentage(numerator, other) ==
    [i \in DOMAIN numerator |->
        CellDiv(numerator[i], CellAdd(numerator[i], other[i]))]

subset_mask_and(df, count_column_1, count_column_2) ==
    [i \in DOMAIN df.data |->
        CellGt(Series(df, count_column_1)[i], 0)
        /\ CellGt(Series(df, count_column_2)[i], 0)]

\* (data_frame[count_column_1] > 0) | (data_frame[count_column_2] > 0)
subset_mask(df, count_column_1, count_column_2) ==
    [i \in DOMAIN df.data |->
        CellGt(Series(df, count_column_1)[i], 0)
        \/ CellGt(Series(df, count_column_2)[i], 0)]

create_subset(df, count_column_1, count_column_2, pcnt_column_1, pcnt_column_2) ==
    LET subset == MaskRows(df, subset_mask(df, count_column_1, count_column_2))
        with_1 == SetCol(subset, pcnt_column_1,
                         determine_percentage(Series(subset, count_column_1),
                                              Series(subset, count_column_2)))
    IN  SetCol(with_1, pcnt_column_2,
               [i \in DOMAIN with_1.data |->
                   CellRSub(1, Series(with_1, pcnt_column_1)[i])])

(***************************************************************************)
(* Inputs of the create_subset specification: one of the three calls of    *)
(* run_study, on a demographics table [zip_code, caucasian, african,       *)
(* latino] with non-negative integer counts.  The two count columns the    *)
(* call names are drawn freely; the third, which create_subset never       *)
(* reads, holds 50 in every row.                                           *)
(***************************************************************************)
Counts == {50 * k : k \in 0..MaxCount}
NoFiles == <<>>
NoIO == <<>>
\* No value yet, and a raised exception, as records like a DataFrame.
None == [none |-> TRUE]
Raised(exception) == [raised |-> exception]
IsRaised(r) == "raised" \in DOMAIN r
IsFrame(r) == "columns" \in DOMAIN r

SeqsUpTo(S, n) == UNION {[1..k -> S] : k \in 0..n}

DemographicColumns == <<ZIP_CODE, CAUCASIAN, AFRICAN, LATINO>>

\* The three pairings run_study asks for.
Pairings ==
    {<<AFRICAN, CAUCASIAN, PCNT_AFRICAN, PCNT_CAUCASIAN>>,
     <<AFRICAN, LATINO, PCNT_AFRICAN, PCNT_LATINO>>,
     <<CAUCASIAN, LATINO, PCNT_CAUCASIAN, PCNT_LATINO>>}

\* The table whose columns c1 and c2 hold the pairs of t.
DemographicFrame(c1, c2, t) ==
    DataFrame(DemographicColumns,
              [i \in DOMAIN t |-> IntCell(i - 1)],
              [i \in DOMAIN t |->
                  [j \in DOMAIN DemographicColumns |->
                      CASE DemographicColumns[j] = ZIP_CODE -> IntCell(10000 + i)
                        [] DemographicColumns[j] = c1 -> IntCell(t[i][1])
                        [] DemographicColumns[j] = c2 -> IntCell(t[i][2])
                        [] OTHER -> IntCell(50)]])

InitSubset ==
    /\ pc = "call"
    /\ args \in Pairings
    /\ \E t \in SeqsUpTo(Counts \X Counts, MaxSubsetRows) :
        data_frame = DemographicFrame(args[1], args[2], t)
    /\ result = None
    /\ files = NoFiles
    /\ io = NoIO
    /\ ncalls = 0
    /\ stack = <<>>
    /\ locals = None
    /\ heap = <<>>

CreateSubset ==
    /\ pc = "call"
    /\ result' = create_subset(data_frame, args[1], args[2], args[3], args[4])
    /\ pc' = "return"
    /\ UNCHANGED <<data_frame, args, files, io, ncalls, stack, locals, heap>>

NextSubset == CreateSubset

SpecSubset == InitSubset /\ [][NextSubset]_vars

(***************************************************************************)
(* remove_outliers: numpy's percentile (linear interpolation between the   *)
(* two nearest order statistics) of the non-missing values, Tukey's fence, *)
(* and the boolean-mask selection of the rows inside it.                   *)
(***************************************************************************)
\* Series.dropna(): the cells that are not NaN, in order.
dropna(series) ==
    LET keep == SelectIdx([i \in DOMAIN series |-> ~IsNaN(series[i])], Len(series))
    IN  [k \in DOMAIN keep |-> series[keep[k]]]

RECURSIVE Insert(_, _)
Insert(sorted, x) ==
    IF sorted = <<>> THEN <<x>>
    ELSE IF CellLe(x, Head(sorted)) THEN <<x>> \o sorted
         ELSE <<Head(sorted)>> \o Insert(Tail(sorted), x)

RECURSIVE Sort(_)
Sort(a) == IF a = <<>> THEN <<>> ELSE Insert(Sort(Tail(a)), Head(a))

\* The interpolation between two neighbouring order statistics a <= b at
\* weight t, in the two forms numpy has had: a * (1 - t) + b * t, and
\* a + (b - a) * t, taken from b when t >= 1/2 and equal to b when b - a is
\* zero.  They agree on finite values and differ on infinite ones.
Interpolations == {"weights", "lerp"}

interpolate(a, b, t, interpolation) ==
    LET d == CellSub(b, a)
    IN  CASE interpolation = "weights" ->
                CellAdd(CellMul(Float(a), CellRSub(1, t)), CellMul(Float(b), t))
          [] IsNum(d) /\ Num(d) = 0 -> Float(b)
          [] CellLe(Rat(1, 2), t) -> CellSub(b, CellMul(d, CellRSub(1, t)))
          [] OTHER -> CellAdd(Float(a), CellMul(d, t))

\* np.percentile(a, q) of a non-empty array: with the virtual index
\* q/100 * (n - 1) = lo + t, the interpolation between sorted[lo] and
\* sorted[lo + 1] (0-based) at weight t.  A NaN in the array makes the
\* result NaN.
np_percentile(a, q, interpolation) ==
    IF \E i \in DOMAIN a : IsNaN(a[i]) THEN NaN
    ELSE LET sorted == Sort(a)
             n == Len(a)
             lo == (q * (n - 1)) \div 100
             t == Rat((q * (n - 1)) % 100, 100)
             hi == IF lo + 2 <= n THEN lo + 2 ELSE n
         IN  interpolate(sorted[lo + 1], sorted[hi], t, interpolation)

\* distance = 1.5
distance == Rat(3, 2)

\* The rows with minimum <= value <= maximum.
fence_mask(df, column_name, minimum, maximum) ==
    [i \in DOMAIN df.data |->
        CellLe(minimum, Series(df, column_name)[i])
        /\ CellLe(Series(df, column_name)[i], maximum)]

remove_outliers_with(df, column_name, q75, q25) ==
    LET iqr == CellSub(q75, q25)
        minimum == CellSub(q25, CellMul(iqr, distance))
        maximum == CellAdd(q75, CellMul(iqr, distance))
    IN  MaskRows(df, fence_mask(df, column_name, minimum, maximum))

remove_outliers_no_dropna(df, column_name) ==
    IF df.data = <<>> THEN {Raised("IndexError"), remove_outliers_with(df, column_name, NaN, NaN)}
    ELSE {remove_outliers_with(df, column_name,
                               np_percentile(Series(df, column_name), 75, v),
                               np_percentile(Series(df, column_name), 25, v))
            : v \in Interpolations}

\* The outcomes of remove_outliers(data_frame, column_name).  The percentile
\* of an empty array depends on the numpy of the build: it raises IndexError,
\* or it is NaN (and then no row passes the comparisons); so does the form
\* of the interpolation.
remove_outliers(df, column_name) ==
    LET a == dropna(Series(df, column_name))
    IN  IF a = <<>>
        THEN {Raised("IndexError"), remove_outliers_with(df, column_name, NaN, NaN)}
        ELSE {remove_outliers_with(df, column_name,
                                   np_percentile(a, 75, v), np_percentile(a, 25, v))
                : v \in Interpolations}

(***************************************************************************)
(* Inputs of the remove_outliers specification: a merged table with an     *)
(* average_income column of finite numbers and missing values.             *)
(***************************************************************************)
MaxOutlierRows == 5
MaxIncome == 2

Incomes == {IntCell(v) : v \in 0..MaxIncome} \cup {NaN}

InitOutliers ==
    /\ pc = "call"
    /\ args = <<AVERAGE_INCOME>>
    /\ \E t \in SeqsUpTo(Incomes, MaxOutlierRows) :
        data_frame = DataFrame(<<ZIP_CODE, AVERAGE_INCOME>>,
                               [i \in DOMAIN t |-> IntCell(i - 1)],
                               [i \in DOMAIN t |-> <<IntCell(10000 + i), t[i]>>])
    /\ result = None
    /\ files = NoFiles
    /\ io = NoIO
    /\ ncalls = 0
    /\ stack = <<>>
    /\ locals = None
    /\ heap = <<>>

RemoveOutliers ==
    /\ pc = "call"
    /\ \E r \in remove_outliers(data_frame, args[1]) :
        /\ result' = r
        /\ pc' = IF IsRaised(r) THEN "raise" ELSE "return"
    /\ UNCHANGED <<data_frame, args, files, io, ncalls, stack, locals, heap>>

NextOutliers == RemoveOutliers

SpecOutliers == InitOutliers /\ [][NextOutliers]_vars

(***************************************************************************)
(* Claims about create_subset, under SpecSubset.                           *)
(***************************************************************************)
\* The integer value of the count cell of result row k in column name.
ResultCount(k, name) == Series(result, name)[k][2]

FractionOf(x, a, b) ==
    /\ x[1] = "rat"
    /\ a + b # 0
    /\ x[2] * (a + b) = a * x[3]

\* C1: every row create_subset returns has fraction_A = countA / (countA +
\* countB) and fraction_B = 1 - fraction_A, so the two sum to 1; no returned
\* row has both counts zero, so no fraction is the NaN of a 0/0 division.
C1_FractionsComplementary ==
    pc = "return" =>
        \A k \in DOMAIN result.data :
            LET a == ResultCount(k, args[1])
                b == ResultCount(k, args[2])
                fa == Series(result, args[3])[k]
                fb == Series(result, args[4])[k]
            IN  /\ ~(a = 0 /\ b = 0)
                /\ FractionOf(fa, a, b)
                /\ FractionOf(fb, b, a)
                /\ fa[2] * fb[3] + fb[2] * fa[3] = fa[3] * fb[3]

\* C1 witness: a call that dropped a row with both counts zero and kept
\* another row.
C1_Witness ==
    /\ pc = "return"
    /\ Len(result.data) >= 1
    /\ \E i \in DOMAIN data_frame.data :
        /\ Series(data_frame, args[1])[i] = IntCell(0)
        /\ Series(data_frame, args[2])[i] = IntCell(0)

\* The input positions with at least one of the two counts positive.
Positive(df, c1, c2) ==
    {i \in DOMAIN df.data :
        Series(df, c1)[i][2] > 0 \/ Series(df, c2)[i][2] > 0}

\* The k-th smallest element of a set of positions.
Kth(S, k) == CHOOSE i \in S : Cardinality({j \in S : j < i}) = k - 1

\* C2: create_subset returns exactly the input rows with at least one of the
\* two counts strictly positive, in input order, with their labels and their
\* input cells; for african/caucasian counts (0, 100) and (50, 50) both rows
\* are kept, with fractions (0, 1) and (1/2, 1/2).
C2_ExactlyPositiveRows ==
    pc = "return" =>
        LET keep == Positive(data_frame, args[1], args[2])
            n == Len(data_frame.columns)
        IN  /\ Len(result.data) = Cardinality(keep)
            /\ Len(result.data) <= Len(data_frame.data)
            /\ Len(result.index) = Len(result.data)
            /\ \A k \in DOMAIN result.data :
                /\ result.index[k] = data_frame.index[Kth(keep, k)]
                /\ SubSeq(result.data[k], 1, n) = data_frame.data[Kth(keep, k)]
            /\ ( /\ args[1] = AFRICAN /\ args[2] = CAUCASIAN
                 /\ Series(data_frame, AFRICAN) = <<IntCell(0), IntCell(50)>>
                 /\ Series(data_frame, CAUCASIAN) = <<IntCell(100), IntCell(50)>>
                 => /\ Series(result, PCNT_AFRICAN) = <<Rat(0, 1), Rat(1, 2)>>
                    /\ Series(result, PCNT_CAUCASIAN) = <<Rat(1, 1), Rat(1, 2)>> )

\* C2 witness: the two rows of the example, both returned.
C2_Witness ==
    /\ pc = "return"
    /\ args[1] = AFRICAN /\ args[2] = CAUCASIAN
    /\ Series(data_frame, AFRICAN) = <<IntCell(0), IntCell(50)>>
    /\ Series(data_frame, CAUCASIAN) = <<IntCell(100), IntCell(50)>>
    /\ Len(result.data) = 2

(***************************************************************************)
(* Claims about remove_outliers, under SpecOutliers.  The fence is stated  *)
(* here on integers: with Q1 = Q4(df, c, 1) / 4 and Q3 = Q4(df, c, 3) / 4, *)
(* a value x is inside [Q1 - 1.5 IQR, Q3 + 1.5 IQR] exactly when           *)
(* 5 Q1 - 3 Q3 <= 2 x <= 5 Q3 - 3 Q1.                                      *)
(***************************************************************************)
NonMissing(df, c) == {i \in DOMAIN df.data : ~IsNaN(Series(df, c)[i])}

\* The k-th smallest of the non-missing values of column c.
OrderStat(df, c, k) ==
    LET nm == NonMissing(df, c)
        val(i) == Series(df, c)[i][2]
    IN  CHOOSE v \in {val(i) : i \in nm} :
            /\ Cardinality({i \in nm : val(i) < v}) < k
            /\ k <= Cardinality({i \in nm : val(i) <= v})

\* Four times the (25 * quarter)-th percentile of the non-missing values.
Q4(df, c, quarter) ==
    LET n == Cardinality(NonMissing(df, c))
        lo == (quarter * (n - 1)) \div 4
        r == (quarter * (n - 1)) % 4
    IN  (4 - r) * OrderStat(df, c, lo + 1)
        + (IF r = 0 THEN 0 ELSE r * OrderStat(df, c, lo + 2))

InFence(df, c, i) ==
    LET x == Series(df, c)[i][2]
        q1 == Q4(df, c, 1)
        q3 == Q4(df, c, 3)
    IN  /\ i \in NonMissing(df, c)
        /\ 5 * q1 - 3 * q3 <= 8 * x
        /\ 8 * x <= 5 * q3 - 3 * q1

\* C3: remove_outliers returns exactly the rows whose target value is not
\* missing and lies within [Q1 - 1.5 IQR, Q3 + 1.5 IQR] of the input's
\* non-missing values, in input order, with the input's columns; it returns
\* whenever the input has a non-missing value.
C3_ExactlyInFenceRows ==
    LET c == args[1]
        keep == {i \in DOMAIN data_frame.data : InFence(data_frame, c, i)}
    IN  /\ pc = "raise" => NonMissing(data_frame, c) = {}
        /\ pc = "return" =>
            /\ result.columns = data_frame.columns
            /\ Len(result.data) = Cardinality(keep)
            /\ Len(result.index) = Len(result.data)
            /\ \A k \in DOMAIN result.data :
                /\ result.index[k] = data_frame.index[Kth(keep, k)]
                /\ result.data[k] = data_frame.data[Kth(keep, k)]

\* C3 witness: a call that kept a row, dropped a non-missing row outside the
\* fence and dropped a row with a missing value.
C3_Witness ==
    /\ pc = "return"
    /\ Len(result.data) >= 1
    /\ \E i \in NonMissing(data_frame, args[1]) : ~InFence(data_frame, args[1], i)
    /\ \E i \in DOMAIN data_frame.data : i \notin NonMissing(data_frame, args[1])

(***************************************************************************)
(* The CSV files.  A file is [header, rows] or Absent.  DataFrame.to_csv   *)
(* writes the row labels as a first column with an empty header;           *)
(* pd.read_csv names a column with an empty header "Unnamed: 0" and labels *)
(* the rows 0, 1, ...  Integers and strings are read back as written.      *)
(***************************************************************************)
NY_WITH_AGI_FILENAME == "ny_agi.csv"
NY_WITHOUT_AGI_FILENAME == "ny_no_agi.csv"
NYC_WITH_AGI_FILENAME == "nyc_agi.csv"
NYC_WITHOUT_AGI_FILENAME == "nyc_no_agi.csv"
WITH_AGI_FILENAME == "15zpallagi.csv"
WITHOUT_AGI_FILENAME == "15zpallnoagi.csv"

Absent == [absent |-> TRUE]
IsFile(fs, path) == fs[path] # Absent

to_csv(df) ==
    [header |-> <<"">> \o df.columns,
     rows |-> [i \in DOMAIN df.data |-> <<df.index[i]>> \o df.data[i]]]

read_csv(file) ==
    DataFrame([j \in DOMAIN file.header |->
                  IF file.header[j] = "" THEN "Unnamed: 0" ELSE file.header[j]],
              [i \in DOMAIN file.rows |-> IntCell(i - 1)],
              file.rows)

\* What a call hands back: its return value (or exception), the files after
\* it, and the inputs it read and the files it wrote.
Outcome(ret, fs, reads, writes) ==
    [ret |-> ret, files |-> fs, reads |-> reads, writes |-> writes]

\* data_frame[data_frame.STATE == target_state], written to output_filepath.
isolate(fs, output_filepath, df, target_state) ==
    LET reduced_data_frame ==
            MaskRows(df, [i \in DOMAIN df.data |->
                             Series(df, "STATE")[i] = StrCell(target_state)])
    IN  Outcome(reduced_data_frame,
                [fs EXCEPT ![output_filepath] = to_csv(reduced_data_frame)],
                {}, {output_filepath})

isolate_nyc_returns_input(fs, output_filepath, df, target_zipcodes, zipcode_fieldname) ==
    IF ~HasCol(df, zipcode_fieldname) THEN Outcome(Raised("KeyError"), fs, {}, {})
    ELSE
    LET reduced_data_frame ==
            MaskRows(df, [i \in DOMAIN df.data |->
                             Series(df, zipcode_fieldname)[i] \in target_zipcodes])
    IN  Outcome(df,
                [fs EXCEPT ![output_filepath] = to_csv(reduced_data_frame)],
                {}, {output_filepath})

\* data_frame[data_frame[zipcode_fieldname].isin(target_zipcodes)], written
\* to output_filepath.
isolate_nyc(fs, output_filepath, df, target_zipcodes, zipcode_fieldname) ==
    IF ~HasCol(df, zipcode_fieldname) THEN Outcome(Raised("KeyError"), fs, {}, {})
    ELSE
    LET reduced_data_frame ==
            MaskRows(df, [i \in DOMAIN df.data |->
                             Series(df, zipcode_fieldname)[i] \in target_zipcodes])
    IN  Outcome(reduced_data_frame,
                [fs EXCEPT ![output_filepath] = to_csv(reduced_data_frame)],
                {}, {output_filepath})

get_ny_common_always_isolate(fs, reduced_filename, whole_filename) ==
    LET made == isolate(fs, reduced_filename, read_csv(fs[whole_filename]), STATE_NY)
    IN  Outcome(made.ret, made.files, {whole_filename}, made.writes)

get_ny_common(fs, reduced_filename, whole_filename) ==
    IF IsFile(fs, reduced_filename)
    THEN Outcome(read_csv(fs[reduced_filename]), fs, {reduced_filename}, {})
    ELSE IF ~IsFile(fs, whole_filename)
    THEN Outcome(Raised("FileNotFoundError"), fs, {}, {})
    ELSE LET made == isolate(fs, reduced_filename,
                             read_csv(fs[whole_filename]), STATE_NY)
         IN  Outcome(made.ret, made.files, {whole_filename}, made.writes)

get_nyc_common(fs, reduced_filename, df, target_zipcodes, zipcode_fieldname) ==
    IF IsFile(fs, reduced_filename)
    THEN Outcome(read_csv(fs[reduced_filename]), fs, {reduced_filename}, {})
    ELSE LET made == isolate_nyc(fs, reduced_filename, df,
                                 target_zipcodes, zipcode_fieldname)
         IN  Outcome(made.ret, made.files, {"data_frame"}, made.writes)

get_ny_with_agi(fs) == get_ny_common(fs, NY_WITH_AGI_FILENAME, WITH_AGI_FILENAME)

get_ny_without_agi(fs) ==
    get_ny_common(fs, NY_WITHOUT_AGI_FILENAME, WITHOUT_AGI_FILENAME)

get_nyc_with_agi(fs, df, target_zipcodes) ==
    get_nyc_common(fs, NYC_WITH_AGI_FILENAME, df, target_zipcodes, "zipcode")

get_nyc_without_agi(fs, df, target_zipcodes) ==
    get_nyc_common(fs, NYC_WITHOUT_AGI_FILENAME, df, target_zipcodes, "ZIPCODE")

(***************************************************************************)
(* The cache specification: any sequence of at most MaxCalls calls of the  *)
(* four get_ny_* / get_nyc_* functions.  The nationwide inputs are fixed;  *)
(* each cache file starts absent or as an earlier run left it.  A          *)
(* get_nyc_* call is handed the table the last get_ny_* call returned, as  *)
(* in get_income_data_with_agi and get_income_data_without_agi.            *)
(***************************************************************************)
MaxCalls == 3

IRSRow(state, zip, x, y) == <<StrCell(state), IntCell(zip), IntCell(x), IntCell(y)>>

\* 15zpallagi.csv: STATE, zipcode, agi_stub, N1.
WholeWithAgi ==
    [header |-> <<"STATE", "zipcode", "agi_stub", "N1">>,
     rows |-> <<IRSRow("NJ", 7001, 1, 10), IRSRow("NY", 10001, 1, 10),
                IRSRow("NY", 10002, 6, 3), IRSRow("NY", 12345, 2, 5)>>]

\* 15zpallnoagi.csv: STATE, ZIPCODE, N02650, A02650.
WholeWithoutAgi ==
    [header |-> <<"STATE", "ZIPCODE", "N02650", "A02650">>,
     rows |-> <<IRSRow("NJ", 7001, 10, 500), IRSRow("NY", 10001, 10, 500),
                IRSRow("NY", 10002, 20, 700), IRSRow("NY", 12345, 0, 0)>>]

CacheFiles ==
    {NY_WITH_AGI_FILENAME, NY_WITHOUT_AGI_FILENAME,
     NYC_WITH_AGI_FILENAME, NYC_WITHOUT_AGI_FILENAME}

FileNames == CacheFiles \cup {WITH_AGI_FILENAME, WITHOUT_AGI_FILENAME}

\* The ZIP codes a call may ask for (the demographics' zip_code column).
ZipChoices == SUBSET {IntCell(10001), IntCell(10002)}

\* A cache file as an earlier run, on other inputs, left it: the state file
\* with the first two rows of the nationwide file, the city file with ZIP
\* code 10002 alone.
EarlierRun(whole, name) ==
    LET df == read_csv(whole)
    IN  IF name \in {NY_WITH_AGI_FILENAME, NY_WITHOUT_AGI_FILENAME}
        THEN to_csv(MaskRows(df, [i \in DOMAIN df.data |-> i <= 2]))
        ELSE to_csv(MaskRows(df, [i \in DOMAIN df.data |-> i = 3]))

WholeOf(name) ==
    IF name \in {NY_WITH_AGI_FILENAME, NYC_WITH_AGI_FILENAME, WITH_AGI_FILENAME}
    THEN WholeWithAgi ELSE WholeWithoutAgi

InitCache ==
    /\ pc = "idle"
    /\ data_frame = None
    /\ args = <<>>
    /\ result = None
    /\ \E present \in SUBSET CacheFiles :
        files = [f \in FileNames |->
                    IF f \notin CacheFiles THEN WholeOf(f)
                    ELSE IF f \in present THEN EarlierRun(WholeOf(f), f)
                    ELSE Absent]
    /\ io = [call |-> "none", path |-> "", wider |-> "", present |-> FALSE,
             reads |-> {}, writes |-> {}, created |-> {}]
    /\ ncalls = 0
    /\ stack = <<>>
    /\ locals = None
    /\ heap = <<>>

\* The bookkeeping of one call: what it found, read and wrote.
Called(call, path, wider, o) ==
    /\ result' = o.ret
    /\ files' = o.files
    /\ io' = [call |-> call, path |-> path, wider |-> wider,
              present |-> IsFile(files, path),
              reads |-> o.reads, writes |-> o.writes,
              created |-> io.created \cup o.writes]
    /\ ncalls' = ncalls + 1
    /\ pc' = IF IsRaised(o.ret) THEN "raise" ELSE "idle"
    /\ UNCHANGED <<stack, locals, heap>>

GetNyWithAgi ==
    /\ pc = "idle" /\ ncalls < MaxCalls
    /\ LET o == get_ny_with_agi(files)
       IN  /\ Called("get_ny_common", NY_WITH_AGI_FILENAME, WITH_AGI_FILENAME, o)
           /\ data_frame' = o.ret
    /\ args' = <<>>

GetNyWithoutAgi ==
    /\ pc = "idle" /\ ncalls < MaxCalls
    /\ LET o == get_ny_without_agi(files)
       IN  /\ Called("get_ny_common", NY_WITHOUT_AGI_FILENAME, WITHOUT_AGI_FILENAME, o)
           /\ data_frame' = o.ret
    /\ args' = <<>>

GetNycWithAgi ==
    /\ pc = "idle" /\ ncalls < MaxCalls
    /\ IsFrame(data_frame) /\ HasCol(data_frame, "zipcode")
    /\ \E target_zipcodes \in ZipChoices :
        /\ Called("get_nyc_common", NYC_WITH_AGI_FILENAME, "data_frame",
                  get_nyc_with_agi(files, data_frame, target_zipcodes))
        /\ args' = <<target_zipcodes, "zipcode">>
    /\ UNCHANGED data_frame

GetNycWithoutAgi ==
    /\ pc = "idle" /\ ncalls < MaxCalls
    /\ IsFrame(data_frame) /\ HasCol(data_frame, "ZIPCODE")
    /\ \E target_zipcodes \in ZipChoices :
        /\ Called("get_nyc_common", NYC_WITHOUT_AGI_FILENAME, "data_frame",
                  get_nyc_without_agi(files, data_frame, target_zipcodes))
        /\ args' = <<target_zipcodes, "ZIPCODE">>
    /\ UNCHANGED data_frame

NextCache ==
    \/ GetNyWithAgi
    \/ GetNyWithoutAgi
    \/ GetNycWithAgi
    \/ GetNycWithoutAgi

SpecCache == InitCache /\ [][NextCache]_vars

(***************************************************************************)
(* Claims about the cache, under SpecCache.                                *)
(***************************************************************************)
\* The rows of the wider input w that a call must keep.
Wanted(call, w, zips, zipcode_fieldname) ==
    IF call = "get_ny_common"
    THEN {i \in DOMAIN w.data : w.data[i][ColPos(w, "STATE")] = StrCell(STATE_NY)}
    ELSE {i \in DOMAIN w.data : w.data[i][ColPos(w, zipcode_fieldname)] \in zips}

\* One call, from the files before it to the files after it.
C4_Call ==
    LET p == io'.path
        w == IF io'.call = "get_ny_common" THEN read_csv(files[io'.wider])
             ELSE data_frame
        keep == IF io'.call = "get_ny_common" THEN Wanted(io'.call, w, {}, "")
                ELSE Wanted(io'.call, w, args'[1], args'[2])
    IN  /\ \A f \in FileNames : IsFile(files, f) => files'[f] = files[f]
        /\ \A f \in FileNames : f # p => files'[f] = files[f]
        /\ IsFile(files, p) =>
            /\ result' = read_csv(files[p])
            /\ io'.reads = {p}
            /\ io'.writes = {}
        /\ ~IsFile(files, p) =>
            /\ io'.reads = {io'.wider}
            /\ io'.writes = {p}
            /\ files'[p] = to_csv(result')
            /\ result'.columns = w.columns
            /\ Len(result'.data) = Cardinality(keep)
            /\ \A k \in DOMAIN result'.data :
                /\ result'.data[k] = w.data[Kth(keep, k)]
                /\ result'.index[k] = w.index[Kth(keep, k)]

\* C4: a call that finds its cache file present returns what it reads from
\* that file, reads nothing else and writes no file; a call that finds it
\* absent derives the subset from the wider input and writes it to that
\* path and no other; an existing file is never changed by a call.
C4_CacheReadOrWrittenOnce == [][C4_Call]_vars

\* C4 witness: a call found present, and read back, a cache file that an
\* earlier call of the run had written.
C4_Witness ==
    /\ io.present
    /\ io.path \in io.created
    /\ io.writes = {}
    /\ result = read_csv(files[io.path])

(***************************************************************************)
(* Column projection and renaming.  A column_map is the dict literal as    *)
(* the sequence of its <<source, target>> items, in insertion order.       *)
(***************************************************************************)
DemographicColumnMap ==
    << <<"JURISDICTION NAME", ZIP_CODE>>,
       <<"COUNT PARTICIPANTS", "participants">>,
       <<"COUNT PACIFIC ISLANDER", "islander">>,
       <<"PERCENT PACIFIC ISLANDER", "pcnt_islander">>,
       <<"COUNT HISPANIC LATINO", LATINO>>,
       <<"PERCENT HISPANIC LATINO", PCNT_LATINO>>,
       <<"COUNT AMERICAN INDIAN", "native">>,
       <<"PERCENT AMERICAN INDIAN", "pcnt_native">>,
       <<"COUNT ASIAN NON HISPANIC", "asian">>,
       <<"PERCENT ASIAN NON HISPANIC", "pcnt_asian">>,
       <<"COUNT WHITE NON HISPANIC", CAUCASIAN>>,
       <<"PERCENT WHITE NON HISPANIC", PCNT_CAUCASIAN>>,
       <<"COUNT BLACK NON HISPANIC", AFRICAN>>,
       <<"PERCENT BLACK NON HISPANIC", PCNT_AFRICAN>>,
       <<"COUNT OTHER ETHNICITY", "other">>,
       <<"PERCENT OTHER ETHNICITY", "pcnt_other">>,
       <<"COUNT ETHNICITY UNKNOWN", "unknown">>,
       <<"PERCENT ETHNICITY UNKNOWN", "pcnt_other">>,
       <<"COUNT ETHNICITY TOTAL", "total">>,
       <<"PERCENT ETHNICITY TOTAL", "pcnt_total">> >>

WithAgiColumnMap ==
    << <<"zipcode", ZIP_CODE>>, <<"agi_stub", "agi_limit">>, <<"N1", "return_count">> >>

WithoutAgiColumnMap ==
    << <<"ZIPCODE", ZIP_CODE>>, <<"N02650", RETURN_COUNT>>, <<"A02650", TOTAL_INCOME>> >>

\* list(column_map.keys())
keys(column_map) == [k \in DOMAIN column_map |-> column_map[k][1]]

select_present(df, names) ==
    LET found == SelectIdx([k \in DOMAIN names |-> HasCol(df, names[k])], Len(names))
    IN  DataFrame([k \in DOMAIN found |-> names[found[k]]], df.index,
                  [i \in DOMAIN df.data |->
                      [k \in DOMAIN found |-> df.data[i][ColPos(df, names[found[k]])]]])

\* data_frame[names]: the named columns, in the order of names; KeyError when
\* a name is not a column.
select(df, names) ==
    IF \E k \in DOMAIN names : ~HasCol(df, names[k])
    THEN Raised("KeyError")
    ELSE DataFrame(names, df.index,
                   [i \in DOMAIN df.data |->
                       [k \in DOMAIN names |-> df.data[i][ColPos(df, names[k])]]])

\* str(label)
str(label) == IF label[1] = "int" THEN StrCell(ToString(label[2])) ELSE label

\* data_frame.rename(index=str, columns=column_map)
rename(df, column_map) ==
    DataFrame([j \in DOMAIN df.columns |->
                  IF \E k \in DOMAIN column_map : column_map[k][1] = df.columns[j]
                  THEN column_map[CHOOSE k \in DOMAIN column_map :
                                      column_map[k][1] = df.columns[j]][2]
                  ELSE df.columns[j]],
              [i \in DOMAIN df.index |-> str(df.index[i])],
              df.data)

\* The projection step shared by the three modify_* functions.
project(df, column_map) ==
    LET selected == select(df, keys(column_map))
    IN  IF IsRaised(selected) THEN selected ELSE rename(selected, column_map)

(***************************************************************************)
(* modify_income_data_with_agi: the recoding of the AGI column and the     *)
(* integer conversion of the return counts.                                *)
(***************************************************************************)
value_map_without_last ==
    << <<1, "$25,000">>, <<2, "$50,000">>, <<3, "$75,000">>,
       <<4, "$100,000">>, <<5, "$200,000">> >>

value_map ==
    << <<1, "$25,000">>, <<2, "$50,000">>, <<3, "$75,000">>,
       <<4, "$100,000">>, <<5, "$200,000">>, <<6, "$infinity">> >>

\* Series.replace(key, value): the cells equal to the number key.
replace(series, key, value) ==
    [i \in DOMAIN series |->
        IF IsNum(series[i]) /\ Num(series[i]) = key * Den(series[i])
        THEN StrCell(value) ELSE series[i]]

RECURSIVE replace_each(_, _, _)
\* for key in value_map.keys(): replace(key, value_map.get(key)), the first
\* n items of the map in order.
replace_each(series, map, n) ==
    IF n = 0 THEN series
    ELSE replace(replace_each(series, map, n - 1), map[n][1], map[n][2])

\* Series.astype(int): a float is truncated towards zero.
astype_int(series) ==
    [i \in DOMAIN series |->
        IF series[i][1] = "rat"
        THEN IntCell(Sign(series[i][2]) * (Abs(series[i][2]) \div series[i][3]))
        ELSE series[i]]

\* Lines 481-489, on the projected table.
recode_agi(df) ==
    IF ~HasCol(df, "agi_limit") \/ ~HasCol(df, "return_count") THEN Raised("KeyError")
    ELSE
    LET recoded == SetCol(df, "agi_limit",
                          replace_each(Series(df, "agi_limit"), value_map, Len(value_map)))
    IN  SetCol(recoded, "return_count", astype_int(Series(recoded, "return_count")))

(***************************************************************************)
(* modify_income_data_without_agi: the average income.                     *)
(***************************************************************************)
np_round_down(x, decimals) ==
    IF ~IsNum(x) THEN x
    ELSE Rat((Num(x) * 10^decimals) \div Den(x), 10^decimals)

\* np.round(x, decimals): x * 10^decimals rounded to the nearest integer,
\* halves to the even one, over 10^decimals.  inf and NaN stay as they are.
np_round(x, decimals) ==
    IF ~IsNum(x) THEN x
    ELSE LET n == Num(x) * 10^decimals
             d == Den(x)
             q == n \div d
             r == n % d
             nearest == CASE 2 * r < d -> q
                          [] 2 * r > d -> q + 1
                          [] OTHER -> IF q % 2 = 0 THEN q ELSE q + 1
         IN  Rat(nearest, 10^decimals)

\* Lines 520-524, on the projected table.
add_average_income(df) ==
    IF ~HasCol(df, TOTAL_INCOME) \/ ~HasCol(df, RETURN_COUNT) THEN Raised("KeyError")
    ELSE
    SetCol(df, AVERAGE_INCOME,
           [i \in DOMAIN df.data |->
               np_round(CellDiv(CellMul(Series(df, TOTAL_INCOME)[i], Rat(1000, 1)),
                                Series(df, RETURN_COUNT)[i]), 2)])

modify_demographic_data(df) == project(df, DemographicColumnMap)

modify_income_data_with_agi(df) ==
    LET projected == project(df, WithAgiColumnMap)
    IN  IF IsRaised(projected) THEN projected ELSE recode_agi(projected)

modify_income_data_without_agi(df) ==
    LET projected == project(df, WithoutAgiColumnMap)
    IN  IF IsRaised(projected) THEN projected ELSE add_average_income(projected)

(***************************************************************************)
(* The projection specification: one of the three modify_* functions is    *)
(* called on a table read from its CSV file, by its caller in the          *)
(* program.  The table has the source columns of the function's map in     *)
(* map order, in reverse order, or between two other columns, and may lack *)
(* one of them.  A second call then hands the function its own result.     *)
(* No function of nyc_study.py has a try statement: an exception leaves    *)
(* one function after the other until the run ends with it.                *)
(***************************************************************************)
MaxProjRows == 2
MaxSeed == 1
MaxTotal == 2

Functions ==
    {"modify_demographic_data", "modify_income_data_with_agi",
     "modify_income_data_without_agi"}

ColumnMapOf(f) ==
    CASE f = "modify_demographic_data" -> DemographicColumnMap
      [] f = "modify_income_data_with_agi" -> WithAgiColumnMap
      [] OTHER -> WithoutAgiColumnMap

\* The call chains of the program that end in f, innermost first.
CallChains(f) ==
    CASE f = "modify_demographic_data" ->
            {<<f, "get_demographic_data", top>> : top \in {"perform_test", "run_study"}}
      [] f = "modify_income_data_with_agi" -> {<<f, "get_income_data_with_agi">>}
      [] OTHER ->
            {<<f, "get_income_data_without_agi", top>> : top \in {"perform_test", "run_study"}}

\* except Exception handlers of a function: there are none.
Handles_KeyError(function, exception) == exception = "KeyError"

Handles(function, exception) == FALSE

Reverse(seq) == [k \in DOMAIN seq |-> seq[Len(seq) + 1 - k]]

\* seq without its m-th element (seq itself when m = 0).
DropAt(seq, m) ==
    [k \in 1..(IF m = 0 THEN Len(seq) ELSE Len(seq) - 1) |->
        IF m = 0 \/ k < m THEN seq[k] ELSE seq[k + 1]]

Layouts == {"map order", "reversed", "among others"}

FileColumns(f, layout, m) ==
    LET sources == DropAt(keys(ColumnMapOf(f)), m)
    IN  CASE layout = "map order" -> sources
          [] layout = "reversed" -> Reverse(sources)
          [] OTHER -> <<"STATE">> \o sources \o <<"A00100">>

\* The AGI codes of a file: those of value_map and one that is not.
AgiCodes == 1..6 \cup {99}

\* Return counts: none, one whose quotients do not terminate, the 10 of the
\* documented example, and one whose quotients can end in a half cent.
ReturnCounts == {0, 3, 10, 64}
Totals == (-1..MaxTotal) \cup {500}

RowSeeds(f) ==
    CASE f = "modify_demographic_data" -> 0..MaxSeed
      [] f = "modify_income_data_with_agi" -> AgiCodes
      [] OTHER -> ReturnCounts \X Totals

ExampleRows(f) ==
    CASE f = "modify_demographic_data" -> <<0, 1>>
      [] f = "modify_income_data_with_agi" -> <<1, 99>>
      [] OTHER -> << <<10, 500>>, <<0, 0>> >>

\* The position of name in seq, 0 when it is not there.
IndexOf(seq, name) ==
    IF \E k \in DOMAIN seq : seq[k] = name
    THEN CHOOSE k \in DOMAIN seq : seq[k] = name ELSE 0

\* The cell of row i in column name of the file drawn with seed.
FileCell(f, name, i, seed) ==
    CASE name = "STATE" -> StrCell(STATE_NY)
      [] name \in {"zipcode", "ZIPCODE"} -> IntCell(10000 + i)
      [] name = "agi_stub" -> IntCell(seed)
      [] name = "N1" -> Rat(10 * i, 1)
      [] name = "N02650" -> IntCell(seed[1])
      [] name = "A02650" -> IntCell(seed[2])
      [] f = "modify_demographic_data" ->
            IntCell(100 * seed + IndexOf(keys(DemographicColumnMap), name))
      [] OTHER -> IntCell(7)

FileFrame(f, columns, seeds) ==
    DataFrame(columns,
              [i \in DOMAIN seeds |-> IntCell(i - 1)],
              [i \in DOMAIN seeds |->
                  [j \in DOMAIN columns |-> FileCell(f, columns[j], i, seeds[i])]])

InitProject ==
    /\ pc = "call"
    /\ \E f \in Functions :
        /\ args = <<f>>
        /\ stack \in CallChains(f)
        /\ \E layout \in Layouts, m \in 0..Len(ColumnMapOf(f)),
              seeds \in SeqsUpTo(RowSeeds(f), MaxProjRows) :
            /\ (layout = "among others" /\ m = 0) \/ seeds = ExampleRows(f)
            /\ data_frame = FileFrame(f, FileColumns(f, layout, m), seeds)
    /\ result = None
    /\ files = NoFiles
    /\ io = NoIO
    /\ ncalls = 0
    /\ locals = None
    /\ heap = <<>>

\* Lines 444-449, 475-479, 514-518: the projection step of the function.
Project ==
    /\ pc = "call"
    /\ result' = project(data_frame, ColumnMapOf(args[1]))
    /\ pc' = IF IsRaised(result') THEN "raise" ELSE "projected"
    /\ ncalls' = ncalls + 1
    /\ UNCHANGED <<data_frame, args, files, io, stack, locals, heap>>

\* The rest of the function, and its return.
Finish ==
    /\ pc = "projected"
    /\ result' = CASE args[1] = "modify_demographic_data" -> result
                   [] args[1] = "modify_income_data_with_agi" -> recode_agi(result)
                   [] OTHER -> add_average_income(result)
    /\ pc' = IF IsRaised(result') THEN "raise" ELSE "return"
    /\ stack' = IF IsRaised(result') THEN stack ELSE Tail(stack)
    /\ UNCHANGED <<data_frame, args, files, io, ncalls, locals, heap>>

\* The same function, called on the table it returned.
Reproject ==
    /\ pc = "return" /\ ncalls = 1
    /\ data_frame' = result
    /\ result' = project(result, ColumnMapOf(args[1]))
    /\ pc' = IF IsRaised(result') THEN "raise" ELSE "projected"
    /\ ncalls' = 2
    /\ stack' = <<args[1]>> \o stack
    /\ UNCHANGED <<args, files, io, locals, heap>>

\* An exception leaves the innermost function, which does not handle it.
Unwind ==
    /\ pc = "raise"
    /\ IF Handles(Head(stack), result.raised)
       THEN /\ pc' = "handled"
            /\ stack' = stack
       ELSE /\ stack' = Tail(stack)
            /\ pc' = IF Tail(stack) = <<>> THEN "crashed" ELSE "raise"
    /\ UNCHANGED <<data_frame, args, result, files, io, ncalls, locals, heap>>

NextProject ==
    \/ Project
    \/ Finish
    \/ Reproject
    \/ Unwind

SpecProject == InitProject /\ [][NextProject]_vars

(***************************************************************************)
(* Claims about the projections, under SpecProject.                        *)
(***************************************************************************)
Called1(f) == ncalls = 1 /\ args[1] = f

\* Some source column of f's map is not a column of df.
MissingSource(f, df) ==
    \E k \in DOMAIN ColumnMapOf(f) : ~HasCol(df, ColumnMapOf(f)[k][1])

\* C5: after the projection step the table has one column per map entry and
\* no others, in map order, the column named by each target name holds the
\* values of its source column, and the rows and their order are those of
\* the input.
C5_ProjectionByName ==
    pc = "projected" /\ ncalls = 1 =>
        LET column_map == ColumnMapOf(args[1])
        IN  /\ Len(result.columns) = Len(column_map)
            /\ \A k \in DOMAIN column_map :
                /\ result.columns[k] = column_map[k][2]
                /\ Series(result, column_map[k][2])
                       = Series(data_frame, column_map[k][1])
            /\ Len(result.data) = Len(data_frame.data)
            /\ \A i \in DOMAIN result.data : result.index[i] = str(data_frame.index[i])

\* C6 as claimed: the projection of an already projected table is that table.
C6_Idempotent == ncalls = 2 => result = data_frame

\* C6 as amended: a projected table has none of the map's source columns, and
\* the same projection applied to it raises KeyError and yields no table.
C6_ReprojectionRaises ==
    /\ pc = "return" /\ ncalls = 1 =>
        \A k \in DOMAIN ColumnMapOf(args[1]) :
            ~HasCol(result, ColumnMapOf(args[1])[k][1])
    /\ ncalls = 2 =>
        /\ result = Raised("KeyError")
        /\ pc \in {"raise", "crashed"}

\* C6 witness: the second projection of a table with rows has run.
C6_Witness ==
    /\ ncalls = 2
    /\ IsFrame(data_frame)
    /\ Len(data_frame.data) >= 1
    /\ IsRaised(result)

C7_Raised ==
    ncalls = 1 /\ MissingSource(args[1], data_frame) =>
        /\ result = Raised("KeyError")
        /\ pc \in {"raise", "crashed"}

C7_Propagates ==
    /\ data_frame' # data_frame => pc = "return"
    /\ pc = "raise" =>
        /\ pc' \in {"raise", "crashed"}
        /\ result' = result
        /\ stack' = Tail(stack)
        /\ pc' = "crashed" <=> stack' = <<>>
    /\ pc = "crashed" => pc' = "crashed"

\* C7: when a source column of the map is missing the projection raises
\* KeyError instead of yielding a table, the exception leaves every calling
\* function in turn until the run ends with it, and the input table stays as
\* it was.
C7_MissingColumnRaises == [](C7_Raised) /\ [][C7_Propagates]_vars

\* C7 witness: a run ended by the KeyError of a missing source column.
C7_Witness ==
    /\ ncalls = 1
    /\ MissingSource(args[1], data_frame)
    /\ pc = "crashed"
    /\ stack = <<>>

\* The one simultaneous lookup of a code in the fixed map.
AgiLabel(code) ==
    CASE code = 1 -> StrCell("$25,000")
      [] code = 2 -> StrCell("$50,000")
      [] code = 3 -> StrCell("$75,000")
      [] code = 4 -> StrCell("$100,000")
      [] code = 5 -> StrCell("$200,000")
      [] code = 6 -> StrCell("$infinity")
      [] OTHER -> IntCell(code)

\* C8: modify_income_data_with_agi returns, and each AGI value of its result
\* is the label the fixed map gives the input code, or the input code itself
\* when the map has no entry for it.
C8_SimultaneousLookup ==
    /\ Called1("modify_income_data_with_agi")
       /\ ~MissingSource(args[1], data_frame) => pc \in {"projected", "return"}
    /\ Called1("modify_income_data_with_agi") /\ pc = "return" =>
        \A i \in DOMAIN result.data :
            Series(result, "agi_limit")[i]
                = AgiLabel(Series(data_frame, "agi_stub")[i][2])

\* C8 witness: a table with a code of the map and the code 99 was recoded.
C8_Witness ==
    /\ Called1("modify_income_data_with_agi") /\ pc = "return"
    /\ \E i, j \in DOMAIN result.data :
        /\ Series(data_frame, "agi_stub")[i] = IntCell(99)
        /\ Series(result, "agi_limit")[i] = IntCell(99)
        /\ Series(data_frame, "agi_stub")[j] = IntCell(6)
        /\ Series(result, "agi_limit")[j] = StrCell("$infinity")

\* x is a number of at most two decimals within half a cent of
\* total * 1000 / count.
IsRoundedAverage(x, total, count) ==
    /\ x[1] = "rat"
    /\ 100 % x[3] = 0
    /\ 200 * Abs(x[2] * count - 1000 * total * x[3]) <= x[3] * Abs(count)

\* C9: for every row with a non-zero return count, average_income is
\* total_income_thsnds * 1000 / number_of_returns rounded to two decimals;
\* 10 returns and a total of 500 give 50000.00.
C9_AverageIncome ==
    Called1("modify_income_data_without_agi") /\ pc = "return" =>
        \A i \in DOMAIN result.data :
            LET count == Series(data_frame, "N02650")[i][2]
                total == Series(data_frame, "A02650")[i][2]
                average == Series(result, AVERAGE_INCOME)[i]
            IN  /\ Series(result, RETURN_COUNT)[i] = IntCell(count)
                /\ Series(result, TOTAL_INCOME)[i] = IntCell(total)
                /\ count # 0 => IsRoundedAverage(average, total, count)
                /\ count = 10 /\ total = 500 => average = Rat(50000, 1)

\* C9 witness: the documented example, and a quotient that had to be rounded.
C9_Witness ==
    /\ Called1("modify_income_data_without_agi") /\ pc = "return"
    /\ \E i, j \in DOMAIN result.data :
        /\ Series(data_frame, "N02650")[i] = IntCell(10)
        /\ Series(data_frame, "A02650")[i] = IntCell(500)
        /\ Series(result, AVERAGE_INCOME)[i] = Rat(50000, 1)
        /\ Series(data_frame, "N02650")[j] = IntCell(3)
        /\ Series(data_frame, "A02650")[j] = IntCell(500)

(***************************************************************************)
(* The rest of the pipeline: the inner join, the model fit and the plots.  *)
(***************************************************************************)
DEMOGRAPHICS_FILENAME == "Demographic_Statistics_By_Zip_Code.csv"

\* The position of the first occurrence of x in seq.
Pos(seq, x) == CHOOSE i \in DOMAIN seq : seq[i] = x /\ \A j \in 1..(i - 1) : seq[j] # x

RECURSIVE Concat(_)
Concat(seqs) == IF seqs = <<>> THEN <<>> ELSE Head(seqs) \o Concat(Tail(seqs))

\* The cells of a row of df other than the one of column name.
Without(df, row, name) ==
    LET keep == SelectIdx([j \in DOMAIN df.columns |-> df.columns[j] # name],
                          Len(df.columns))
    IN  [k \in DOMAIN keep |-> row[keep[k]]]

\* The rows of an inner join on the column on (present in both tables): each
\* left row, in order, with each right row of the same key, in order; the
\* key column once, then the other columns of left and of right; rows
\* labelled 0, 1, ...
inner_join(left, right, on) ==
    LET matches(i) ==
            SelectIdx([j \in DOMAIN right.data |->
                          Series(right, on)[j] = Series(left, on)[i]],
                      Len(right.data))
        joined == Concat([i \in DOMAIN left.data |->
                            [k \in DOMAIN matches(i) |->
                                left.data[i]
                                \o Without(right, right.data[matches(i)[k]], on)]])
    IN  DataFrame(left.columns \o Without(right, right.columns, on),
                  [k \in DOMAIN joined |-> IntCell(k - 1)],
                  joined)

merge_with_returns(left, right, on) ==
    IF ~HasCol(left, on) \/ ~HasCol(right, on) THEN Raised("KeyError")
    ELSE inner_join(left,
                    MaskRows(right, [j \in DOMAIN right.data |->
                                        CellGt(Series(right, RETURN_COUNT)[j], 0)]),
                    on)

\* left.merge(right, on=on)
merge(left, right, on) ==
    IF ~HasCol(left, on) \/ ~HasCol(right, on) THEN Raised("KeyError")
    ELSE inner_join(left, right, on)

\* create_model(data_frame, column_1, column_2): the fitted estimator, which
\* is determined by the x and y values it was fit on.  LinearRegression.fit
\* refuses an empty sample and values that are NaN or infinite.
create_model(df, column_1, column_2) ==
    IF ~HasCol(df, column_1) \/ ~HasCol(df, column_2) THEN Raised("KeyError")
    ELSE LET x == Series(df, column_1)
             y == Series(df, column_2)
         IN  IF \/ Len(df.data) = 0
                \/ \E i \in DOMAIN x : ~IsNum(x[i]) \/ ~IsNum(y[i])
             THEN Raised("ValueError")
             ELSE [fit_x |-> x, fit_y |-> y]

\* plot_model(...): the figure shown, a scatter of the two columns and the
\* line of the model.
plot_model(df, column_1, column_2, model, x_label, y_label, plot_title) ==
    IF ~HasCol(df, column_1) \/ ~HasCol(df, column_2) THEN Raised("KeyError")
    ELSE [scatter_x |-> Series(df, column_1), scatter_y |-> Series(df, column_2),
          line |-> model, x_label |-> x_label, y_label |-> y_label,
          title |-> plot_title]

\* plot_lines(ethnicities): the figure shown, one line per group.
plot_lines(ethnicities) ==
    [labels |-> ethnicities, x_label |-> "Percent Ethnic Makeup",
     y_label |-> "Average Income"]

(***************************************************************************)
(* The pipeline specification: the two module-level calls, perform_test()  *)
(* and then run_study(), one action per statement.  pc is the line of the  *)
(* statement to run next (a.b: line b of the function called at line a).   *)
(* The demographics file has MaxZips ZIP codes with their three counts;    *)
(* the nationwide IRS file has a row for each of them, one New Jersey row  *)
(* and one upstate row; the two cache files of the no-AGI data are absent  *)
(* or left by an earlier run.  io is the trace of the calls made.          *)
(***************************************************************************)
MaxZips == 2

Statements ==
    <<"535", "538", "538.222", "538.223", "538.224", "541", "544", "567", "571",
      "705", "708", "711", "714", "718", "718.222", "718.223", "718.224",
      "721", "722", "723", "726", "727", "728", "731", "734", "737",
      "741", "747", "753", "end">>

Following(label) == Statements[Pos(Statements, label) + 1]

\* The functions a statement runs in, innermost first.
ChainAt(label) ==
    CASE label \in {"538.222", "538.223", "538.224"} ->
            <<"get_income_data_without_agi", "perform_test">>
      [] label \in {"718.222", "718.223", "718.224"} ->
            <<"get_income_data_without_agi", "run_study">>
      [] label \in {"535", "538", "541", "544", "567", "571"} -> <<"perform_test">>
      [] label = "end" -> <<>>
      [] OTHER -> <<"run_study">>

\* (caucasian, african, latino) counts of a ZIP code, and (N02650, A02650)
\* of its IRS row.
CountChoices == {<<0, 0, 0>>, <<50, 50, 0>>, <<0, 50, 100>>}
ReturnChoices == {<<10, 500>>, <<0, 0>>, <<0, 500>>}

DemographicsFile(counts) ==
    [header |-> keys(DemographicColumnMap),
     rows |-> [i \in DOMAIN counts |->
                  [j \in DOMAIN DemographicColumnMap |->
                      CASE DemographicColumnMap[j][2] = ZIP_CODE -> IntCell(10000 + i)
                        [] DemographicColumnMap[j][2] = CAUCASIAN -> IntCell(counts[i][1])
                        [] DemographicColumnMap[j][2] = AFRICAN -> IntCell(counts[i][2])
                        [] DemographicColumnMap[j][2] = LATINO -> IntCell(counts[i][3])
                        [] OTHER -> IntCell(7)]]]

IRSFile(returns) ==
    [header |-> <<"STATE", "ZIPCODE", "N02650", "A02650">>,
     rows |-> <<IRSRow("NJ", 7001, 10, 500)>>
              \o [i \in DOMAIN returns |->
                     IRSRow("NY", 10000 + i, returns[i][1], returns[i][2])]
              \o <<IRSRow("NY", 12345, 20, 700)>>]

StudyCaches == {NY_WITHOUT_AGI_FILENAME, NYC_WITHOUT_AGI_FILENAME}

StudyFiles == StudyCaches \cup {DEMOGRAPHICS_FILENAME, WITHOUT_AGI_FILENAME}

Locals ==
    {"my_demographics", "my_income", "demographics", "income",
     "african_vs_caucasian", "african_vs_latino", "caucasian_vs_latino",
     "african_vs_caucasian_no_outlrs", "african_vs_latino_no_outliers",
     "caucasian_vs_latino_no_outliers", "african_vs_caucasian_model",
     "caucasian_vs_latino_model", "african_vs_latino_model"}

InitStudy ==
    /\ pc = "535"
    /\ data_frame = None
    /\ args = <<>>
    /\ result = None
    /\ \E counts \in [1..MaxZips -> CountChoices],
          returns \in [1..MaxZips -> ReturnChoices],
          present \in SUBSET StudyCaches :
        files = [f \in StudyFiles |->
                    CASE f = DEMOGRAPHICS_FILENAME -> DemographicsFile(counts)
                      [] f = WITHOUT_AGI_FILENAME -> IRSFile(returns)
                      [] f \in present -> EarlierRun(IRSFile(returns), f)
                      [] OTHER -> Absent]
    /\ io = <<>>
    /\ ncalls = 0
    /\ stack = ChainAt("535")
    /\ locals = [v \in Locals |-> None]
    /\ heap = <<>>

\* One entry of the trace: the statement, the function called, the locals
\* handed to it, the column names handed to it, those of them its row
\* selection reads, and the local its value is bound to.
Event(call, input, columns, on, out) ==
    [at |-> pc, call |-> call, input |-> input, columns |-> columns,
     on |-> on, out |-> out]

\* The statement at pc has run: its value ret is bound to the local out, or
\* its exception starts to propagate from the functions of chain.
Ran(ret, out, event, chain) ==
    /\ heap' = heap
    /\ result' = ret
    /\ io' = Append(io, event)
    /\ ncalls' = ncalls + 1
    /\ IF IsRaised(ret)
       THEN /\ pc' = "raise"
            /\ stack' = chain \o stack
            /\ locals' = locals
       ELSE /\ pc' = Following(pc)
            /\ stack' = ChainAt(Following(pc))
            /\ locals' = IF out \in Locals THEN [locals EXCEPT ![out] = ret]
                         ELSE locals

\* my_demographics = get_demographic_data()
\* demographics = get_demographic_data()[desired_demographics]
GetDemographicData ==
    /\ pc \in {"535", "705"}
    /\ LET modified == modify_demographic_data(read_csv(files[DEMOGRAPHICS_FILENAME]))
           ret == IF pc = "535" \/ IsRaised(modified) THEN modified
                  ELSE select(modified, DemographicColumns)
           out == IF pc = "535" THEN "my_demographics" ELSE "demographics"
       IN  Ran(ret, out,
               Event("get_demographic_data", <<>>,
                     IF pc = "535" THEN <<>> ELSE DemographicColumns, {}, out),
               <<"modify_demographic_data", "get_demographic_data">>)
    /\ UNCHANGED <<data_frame, args, files>>

\* get_income_data_without_agi(my_demographics[ZIP_CODE]) and
\* get_income_data_without_agi(demographics[ZIP_CODE]): the call is entered
\* with the column as its zip_codes.
CallGetIncome ==
    /\ pc \in {"538", "718"}
    /\ LET caller == IF pc = "538" THEN "my_demographics" ELSE "demographics"
       IN  /\ args' = <<Series(locals[caller], ZIP_CODE)>>
           /\ Ran(None, "zip_codes",
                  Event("get_income_data_without_agi", <<caller>>, <<ZIP_CODE>>,
                        {}, "zip_codes"),
                  <<>>)
    /\ UNCHANGED <<data_frame, files>>

\* data_frame = get_ny_without_agi()
StudyGetNy ==
    /\ pc \in {"538.222", "718.222"}
    /\ LET o == get_ny_without_agi(files)
       IN  /\ args' = args
           /\ data_frame' = o.ret
           /\ files' = o.files
           /\ Ran(o.ret, "data_frame",
                  Event("get_ny_without_agi", <<>>, <<>>,
                        IF o.writes = {} THEN {} ELSE {"STATE"}, "data_frame"),
                  <<"get_ny_common", "get_ny_without_agi">>)

\* data_frame = get_nyc_without_agi(data_frame, zip_codes)
StudyGetNyc ==
    /\ pc \in {"538.223", "718.223"}
    /\ LET o == get_nyc_without_agi(files, data_frame, Range(args[1]))
       IN  /\ data_frame' = IF IsRaised(o.ret) THEN data_frame ELSE o.ret
           /\ files' = o.files
           /\ Ran(o.ret, "data_frame",
                  Event("get_nyc_without_agi", <<"data_frame", "zip_codes">>,
                        <<"ZIPCODE">>,
                        IF o.writes = {} THEN {} ELSE {"ZIPCODE"}, "data_frame"),
                  <<"get_nyc_common", "get_nyc_without_agi">>)
    /\ UNCHANGED args

\* return modify_income_data_without_agi(data_frame), bound by the caller to
\* my_income or income.
StudyModifyIncome ==
    /\ pc \in {"538.224", "718.224"}
    /\ LET out == IF pc = "538.224" THEN "my_income" ELSE "income"
       IN  Ran(modify_income_data_without_agi(data_frame), out,
               Event("modify_income_data_without_agi", <<"data_frame">>,
                     keys(WithoutAgiColumnMap), {}, out),
               <<"modify_income_data_without_agi">>)
    /\ UNCHANGED <<data_frame, args, files>>

\* print(my_demographics), print(my_income), print(signficance)
PrintTable ==
    /\ pc \in {"541", "544", "571"}
    /\ Ran(None, "",
           Event("print",
                 CASE pc = "541" -> <<"my_demographics">>
                   [] pc = "544" -> <<"my_income">>
                   [] OTHER -> <<>>,
                 <<>>, {}, ""),
           <<>>)
    /\ UNCHANGED <<data_frame, args, files>>

\* plot_lines(groups)
PlotLines ==
    /\ pc = "567"
    /\ Ran(plot_lines(<<"African", "Asian", "Caucasian", "Hispanic">>), "",
           Event("plot_lines", <<>>, <<>>, {}, ""), <<"plot_lines">>)
    /\ UNCHANGED <<data_frame, args, files>>

\* The three create_subset calls of run_study.
StudyCreateSubset ==
    /\ pc \in {"708", "711", "714"}
    /\ LET a == CASE pc = "708" -> <<"african_vs_caucasian", AFRICAN, CAUCASIAN,
                                     PCNT_AFRICAN, PCNT_CAUCASIAN>>
                  [] pc = "711" -> <<"african_vs_latino", AFRICAN, LATINO,
                                     PCNT_AFRICAN, PCNT_LATINO>>
                  [] OTHER -> <<"caucasian_vs_latino", CAUCASIAN, LATINO,
                                PCNT_CAUCASIAN, PCNT_LATINO>>
       IN  Ran(create_subset(locals.demographics, a[2], a[3], a[4], a[5]), a[1],
               Event("create_subset", <<"demographics">>, Tail(a),
                     {a[2], a[3]}, a[1]),
               <<"create_subset">>)
    /\ UNCHANGED <<data_frame, args, files>>

\* The three merges: each subset is replaced by its join with income.
Merge ==
    /\ pc \in {"721", "722", "723"}
    /\ LET t == CASE pc = "721" -> "african_vs_caucasian"
                  [] pc = "722" -> "african_vs_latino"
                  [] OTHER -> "caucasian_vs_latino"
       IN  Ran(merge(locals[t], locals.income, ZIP_CODE), t,
               Event("merge", <<t, "income">>, <<ZIP_CODE>>, {ZIP_CODE}, t),
               <<"merge">>)
    /\ UNCHANGED <<data_frame, args, files>>

\* The three remove_outliers calls.
StudyRemoveOutliers ==
    /\ pc \in {"726", "727", "728"}
    /\ LET a == CASE pc = "726" -> <<"african_vs_caucasian",
                                     "african_vs_caucasian_no_outlrs">>
                  [] pc = "727" -> <<"african_vs_latino",
                                     "african_vs_latino_no_outliers">>
                  [] OTHER -> <<"caucasian_vs_latino",
                                "caucasian_vs_latino_no_outliers">>
       IN  \E r \in remove_outliers(locals[a[1]], AVERAGE_INCOME) :
               Ran(r, a[2],
                   Event("remove_outliers", <<a[1]>>, <<AVERAGE_INCOME>>,
                         {AVERAGE_INCOME}, a[2]),
                   <<"remove_outliers">>)
    /\ UNCHANGED <<data_frame, args, files>>

Regression_plot_other_table(label) ==
    CASE label \in {"731", "741"} ->
            <<"african_vs_caucasian_no_outlrs", PCNT_CAUCASIAN,
              "african_vs_caucasian_model", "Percent Caucasian to African American">>
      [] label \in {"734"} ->
            <<"caucasian_vs_latino_no_outliers", PCNT_CAUCASIAN,
              "caucasian_vs_latino_model", "Percent Caucasian to Latino">>
      [] label \in {"747"} ->
            <<"african_vs_caucasian_no_outlrs", PCNT_CAUCASIAN,
              "caucasian_vs_latino_model", "Percent Caucasian to Latino">>
      [] OTHER ->
            <<"african_vs_latino_no_outliers", PCNT_LATINO,
              "african_vs_latino_model", "Percent Latino to African American">>

Regression_one_table(label) ==
    CASE label \in {"731"} ->
            <<"african_vs_caucasian_no_outlrs", PCNT_CAUCASIAN,
              "african_vs_caucasian_model", "Percent Caucasian to African American">>
      [] label \in {"734", "747", "741"} ->
            <<"caucasian_vs_latino_no_outliers", PCNT_CAUCASIAN,
              "caucasian_vs_latino_model", "Percent Caucasian to Latino">>
      [] OTHER ->
            <<"african_vs_latino_no_outliers", PCNT_LATINO,
              "african_vs_latino_model", "Percent Latino to African American">>

\* The table, x column and model of each of the three regressions, by the
\* line of its create_model call and of its plot_model call.
Regression(label) ==
    CASE label \in {"731", "741"} ->
            <<"african_vs_caucasian_no_outlrs", PCNT_CAUCASIAN,
              "african_vs_caucasian_model", "Percent Caucasian to African American">>
      [] label \in {"734", "747"} ->
            <<"caucasian_vs_latino_no_outliers", PCNT_CAUCASIAN,
              "caucasian_vs_latino_model", "Percent Caucasian to Latino">>
      [] OTHER ->
            <<"african_vs_latino_no_outliers", PCNT_LATINO,
              "african_vs_latino_model", "Percent Latino to African American">>

\* The three create_model calls.
CreateModel ==
    /\ pc \in {"731", "734", "737"}
    /\ LET a == Regression(pc)
       IN  Ran(create_model(locals[a[1]], a[2], AVERAGE_INCOME), a[3],
               Event("create_model", <<a[1]>>, <<a[2], AVERAGE_INCOME>>, {}, a[3]),
               <<"create_model">>)
    /\ UNCHANGED <<data_frame, args, files>>

\* The three plot_model calls.
PlotModel ==
    /\ pc \in {"741", "747", "753"}
    /\ LET a == Regression(pc)
       IN  Ran(plot_model(locals[a[1]], a[2], AVERAGE_INCOME, locals[a[3]],
                          a[4], "Average Income", locals[a[3]]),
               "",
               Event("plot_model", <<a[1], a[3]>>, <<a[2], AVERAGE_INCOME>>, {}, ""),
               <<"plot_model">>)
    /\ UNCHANGED <<data_frame, args, files>>

NextStudy ==
    \/ GetDemographicData
    \/ CallGetIncome
    \/ StudyGetNy
    \/ StudyGetNyc
    \/ StudyModifyIncome
    \/ PrintTable
    \/ PlotLines
    \/ StudyCreateSubset
    \/ Merge
    \/ StudyRemoveOutliers
    \/ CreateModel
    \/ PlotModel
    \/ Unwind

SpecStudy == InitStudy /\ [][NextStudy]_vars

(***************************************************************************)
(* Claims about rows with no returns, under SpecStudy.                     *)
(***************************************************************************)
\* The statement that ran last called the function call.
LastCall(call) == io # <<>> /\ io[Len(io)].call = call

\* modify_income_data_without_agi on the one row i of df.
RowAlone(df, i) ==
    modify_income_data_without_agi(
        MaskRows(df, [k \in DOMAIN df.data |-> k = i]))

\* Both calls of modify_income_data_without_agi return a table with every
\* row of their input, and the average_income of a row is what it would be
\* were the row alone: infinite or NaN when its return count is zero, the
\* rounded quotient otherwise.
C10_ZeroReturnsKept ==
    LastCall("modify_income_data_without_agi") =>
        /\ IsFrame(result)
        /\ Len(result.data) = Len(data_frame.data)
        /\ \A i \in DOMAIN data_frame.data :
            LET count == Series(data_frame, "N02650")[i][2]
                total == Series(data_frame, "A02650")[i][2]
                average == Series(result, AVERAGE_INCOME)[i]
            IN  /\ Series(result, RETURN_COUNT)[i] = IntCell(count)
                /\ average = Series(RowAlone(data_frame, i), AVERAGE_INCOME)[1]
                /\ count = 0 => IsNaN(average) \/ IsInf(average)
                /\ count # 0 => IsRoundedAverage(average, total, count)

\* Every row of income, whatever its return count, is in the joined table of
\* each pairing whose subset has its ZIP code (one of the pairing's two
\* counts is positive).
C10_JoinKeepsZeroReturns ==
    LastCall("merge") =>
        /\ IsFrame(result)
        /\ \A k \in DOMAIN io :
            io[k].call = "create_subset" /\ io[k].out = io[Len(io)].out =>
                \A i \in DOMAIN locals.demographics.data,
                   j \in DOMAIN locals.income.data :
                    /\ Series(locals.demographics, ZIP_CODE)[i]
                         = Series(locals.income, ZIP_CODE)[j]
                    /\ \E c \in io[k].on :
                         CellGt(Series(locals.demographics, c)[i], 0)
                    => \E m \in DOMAIN result.data :
                         /\ Series(result, ZIP_CODE)[m]
                              = Series(locals.income, ZIP_CODE)[j]
                         /\ Series(result, RETURN_COUNT)[m]
                              = Series(locals.income, RETURN_COUNT)[j]
                         /\ Series(result, AVERAGE_INCOME)[m]
                              = Series(locals.income, AVERAGE_INCOME)[j]

\* The statements of run_study before the first create_model call.
BeforeRegression ==
    {"705", "708", "711", "714", "718", "718.222", "718.223", "718.224",
     "721", "722", "723", "726", "727", "728"}

\* No statement of run_study before the regression selects rows on the
\* return count, under either of its names.
C10_NoFilterOnReturns ==
    \A k \in DOMAIN io :
        io[k].at \in BeforeRegression =>
            io[k].on \cap {RETURN_COUNT, "N02650"} = {}

\* C10: a row with return count zero does not make
\* modify_income_data_without_agi fail: the call completes, the row stays in
\* the output with an infinite or NaN average_income, the average_income of
\* every other row is unaffected, and no step of run_study before the
\* regression filters on the return count: the row reaches the joined table.
C10_ZeroReturnCount ==
    /\ C10_ZeroReturnsKept
    /\ C10_JoinKeepsZeroReturns
    /\ C10_NoFilterOnReturns

\* C10 witness: run_study has reached its first create_model call with an
\* income table that has a row of no returns and infinite average_income,
\* one of no returns and NaN average_income, and the first joined table has
\* a row of no returns.
C10_Witness ==
    /\ pc = "731"
    /\ \E i, j \in DOMAIN locals.income.data :
        /\ Series(locals.income, RETURN_COUNT)[i] = IntCell(0)
        /\ IsInf(Series(locals.income, AVERAGE_INCOME)[i])
        /\ Series(locals.income, RETURN_COUNT)[j] = IntCell(0)
        /\ IsNaN(Series(locals.income, AVERAGE_INCOME)[j])
    /\ \E m \in DOMAIN locals.african_vs_caucasian.data :
        Series(locals.african_vs_caucasian, RETURN_COUNT)[m] = IntCell(0)

(***************************************************************************)
(* Claims about the ZIP codes of the city table, under SpecCache.          *)
(***************************************************************************)
\* C11: every row of the table a get_nyc_common call returns has its ZIP
\* code in the target_zipcodes passed to that call, also when the cache file
\* was written by an earlier call of the run.
C11_RowsInTarget ==
    /\ io.call = "get_nyc_common"
    /\ IsFrame(result)
    /\ io.path \in io.created
    => \A i \in DOMAIN result.data :
           Series(result, args[2])[i] \in args[1]

(***************************************************************************)
(* Claims about the tables passed between the steps, under SpecStudy.      *)
(***************************************************************************)
\* The entry of the trace that bound the local name as statement k found it
\* (0: none did).
Producer(k, name) ==
    LET earlier == {j \in 1..(k - 1) : io[j].out = name}
    IN  IF earlier = {} THEN 0
        ELSE CHOOSE j \in earlier : \A h \in earlier : h <= j

\* The statements that were handed the value bound by entry j.
Consumers(j) ==
    {k \in DOMAIN io : \E n \in Range(io[k].input) : Producer(k, n) = j}

\* The value bound by every entry is handed to at most one later statement.
C12_AtMostOneConsumer ==
    \A j \in DOMAIN io : Cardinality(Consumers(j)) <= 1

\* The entries whose values the statement that ran last was handed.
Handed ==
    IF io = <<>> THEN {}
    ELSE {Producer(Len(io), n) : n \in Range(io[Len(io)].input)} \ {0}

\* The number of statements each local is handed to in a whole run.
Shared(name) ==
    CASE name = "my_demographics" -> 2
      [] name = "demographics" -> 4
      [] name = "income" -> 3
      [] name \in {"african_vs_caucasian_no_outlrs",
                   "african_vs_latino_no_outliers",
                   "caucasian_vs_latino_no_outliers"} -> 2
      [] OTHER -> 1

\* C12: the tables passed between the steps are not all consumed by at most
\* one downstream step: my_demographics is handed to the income lookup and
\* to print, demographics to the three create_subset calls and to the income
\* lookup, income to the three merges and each outlier-removed table to its
\* create_model and its plot_model; every other value is handed to at most
\* one later statement.  Whenever a statement has run, the values it was
\* handed have been handed to no more statements than that, and a run that
\* reaches its end has handed each value to exactly that many.
C12_ConsumersPerTable ==
    /\ \A j \in Handed : Cardinality(Consumers(j)) <= Shared(io[j].out)
    /\ pc = "end" =>
           \A j \in DOMAIN io :
               io[j].out # "" => Cardinality(Consumers(j)) = Shared(io[j].out)

\* C12 witness: a run has reached its end, having handed demographics to
\* four statements and income to three.
C12_Witness ==
    /\ pc = "end"
    /\ \E j, h \in DOMAIN io :
        /\ io[j].out = "demographics" /\ Cardinality(Consumers(j)) = 4
        /\ io[h].out = "income" /\ Cardinality(Consumers(h)) = 3

(***************************************************************************)
(* Tables as objects.  heap is the sequence of the table objects in        *)
(* memory and a variable holds the position of its object, so that two     *)
(* variables can name one object.  Indexing a DataFrame by a boolean mask  *)
(* or by a list of columns, rename and merge make a new object;            *)
(* pd.DataFrame(frame) shares the data of frame; frame[name] = values and  *)
(* Series.replace(inplace=True) change the object they are applied to.     *)
(***************************************************************************)
\* A new object holding table: the heap with it, and its position.
Alloc(h, table) == [heap |-> Append(h, table), ref |-> Len(h) + 1]

boolean_index_in_place(h, ref, mask) ==
    [heap |-> [h EXCEPT ![ref] = MaskRows(h[ref], mask)], ref |-> ref]

\* pd.DataFrame(data_frame[mask])
boolean_index(h, ref, mask) == Alloc(h, MaskRows(h[ref], mask))

\* data_frame[list(column_map.keys())]
column_index(h, ref, names) == Alloc(h, select(h[ref], names))

\* data_frame.rename(index=str, columns=column_map)
rename_copy(h, ref, column_map) == Alloc(h, rename(h[ref], column_map))

\* data_frame[name] = series
setitem(h, ref, name, series) == [h EXCEPT ![ref] = SetCol(h[ref], name, series)]

\* The outcomes of lines 683-689: the fence, or the exception of the
\* percentile of an empty array where the build raises one.
fences(df, column_name) ==
    LET a == dropna(Series(df, column_name))
        fence(q75, q25) ==
            [minimum |-> CellSub(q25, CellMul(CellSub(q75, q25), distance)),
             maximum |-> CellAdd(q75, CellMul(CellSub(q75, q25), distance))]
    IN  IF a = <<>> THEN {Raised("IndexError"), fence(NaN, NaN)}
        ELSE {fence(np_percentile(a, 75, v), np_percentile(a, 25, v))
                : v \in Interpolations}

(***************************************************************************)
(* The transform specification: the statements of the transforms, run on   *)
(* the heap.  Either lines 708-728 of run_study (the three create_subset   *)
(* calls on demographics, the three merges with income, the three          *)
(* remove_outliers calls), or one call of a modify_* function by its       *)
(* caller.  pc is the line of the next statement; stack holds the          *)
(* suspended callers; data_frame is the heap as it was when the last call  *)
(* was made; args is the function called, its table and its column names.  *)
(***************************************************************************)
\* The calls: the function, the caller's variable handed to it, the column
\* names handed to it, and the caller's variable bound to what it returns.
CallSite(label) ==
    CASE label = "708" ->
            [function |-> "create_subset", input |-> "demographics",
             columns |-> <<AFRICAN, CAUCASIAN, PCNT_AFRICAN, PCNT_CAUCASIAN>>,
             out |-> "african_vs_caucasian"]
      [] label = "711" ->
            [function |-> "create_subset", input |-> "demographics",
             columns |-> <<AFRICAN, LATINO, PCNT_AFRICAN, PCNT_LATINO>>,
             out |-> "african_vs_latino"]
      [] label = "714" ->
            [function |-> "create_subset", input |-> "demographics",
             columns |-> <<CAUCASIAN, LATINO, PCNT_CAUCASIAN, PCNT_LATINO>>,
             out |-> "caucasian_vs_latino"]
      [] label = "726" ->
            [function |-> "remove_outliers", input |-> "african_vs_caucasian",
             columns |-> <<AVERAGE_INCOME>>,
             out |-> "african_vs_caucasian_no_outlrs"]
      [] label = "727" ->
            [function |-> "remove_outliers", input |-> "african_vs_latino",
             columns |-> <<AVERAGE_INCOME>>,
             out |-> "african_vs_latino_no_outliers"]
      [] label = "728" ->
            [function |-> "remove_outliers", input |-> "caucasian_vs_latino",
             columns |-> <<AVERAGE_INCOME>>,
             out |-> "caucasian_vs_latino_no_outliers"]
      [] label = "191" ->
            [function |-> "modify_demographic_data", input |-> "data_frame",
             columns |-> <<>>, out |-> "returned"]
      [] label = "209" ->
            [function |-> "modify_income_data_with_agi", input |-> "data_frame",
             columns |-> <<>>, out |-> "returned"]
      [] OTHER ->
            [function |-> "modify_income_data_without_agi", input |-> "data_frame",
             columns |-> <<>>, out |-> "returned"]

CallSites == {"708", "711", "714", "726", "727", "728", "191", "209", "224"}

\* The statements of each function, in order.
Lines(function) ==
    CASE function = "create_subset" -> <<"79", "84", "86", "87">>
      [] function = "remove_outliers" -> <<"683", "692", "693">>
      [] function = "modify_demographic_data" -> <<"445", "448", "449">>
      [] function = "modify_income_data_with_agi" ->
            <<"476", "479", "484", "488", "489">>
      [] function = "modify_income_data_without_agi" ->
            <<"515", "518", "521", "524">>
      [] function = "run_study" ->
            <<"708", "711", "714", "721", "722", "723", "726", "727", "728", "end">>
      [] OTHER -> <<"191", "209", "224", "end">>

\* The statement after label in function; a get_* caller ends after its call.
NextLine(function, label) ==
    IF label \in {"191", "209", "224"} THEN "end"
    ELSE Lines(function)[Pos(Lines(function), label) + 1]

\* The local variables a function starts with, its table at ref.
Entered(function, ref) ==
    CASE function = "create_subset" -> [data_frame |-> ref, subset |-> 0]
      [] function = "remove_outliers" ->
            [data_frame |-> ref, minimum |-> NaN, maximum |-> NaN, returned |-> 0]
      [] OTHER -> [data_frame |-> ref]

\* The variable a function returns.
Returned(function) ==
    CASE function = "create_subset" -> "subset"
      [] function = "remove_outliers" -> "returned"
      [] OTHER -> "data_frame"

\* The tables a modify_* function is called on.
PureSeeds(f) ==
    IF f = "modify_income_data_without_agi" THEN ReturnChoices ELSE RowSeeds(f)

InitPure ==
    /\ \/ /\ pc = "708"
          /\ \E counts \in [1..MaxZips -> CountChoices],
                returns \in [1..MaxZips -> ReturnChoices] :
              heap = <<select(modify_demographic_data(
                                  read_csv(DemographicsFile(counts))),
                              DemographicColumns),
                       modify_income_data_without_agi(
                           FileFrame("modify_income_data_without_agi",
                                     keys(WithoutAgiColumnMap), returns))>>
          /\ locals = [demographics |-> 1, income |-> 2,
                       african_vs_caucasian |-> 0, african_vs_latino |-> 0,
                       caucasian_vs_latino |-> 0,
                       african_vs_caucasian_no_outlrs |-> 0,
                       african_vs_latino_no_outliers |-> 0,
                       caucasian_vs_latino_no_outliers |-> 0]
       \/ /\ pc \in {"191", "209", "224"}
          /\ \E seeds \in SeqsUpTo(PureSeeds(CallSite(pc).function), MaxProjRows) :
              heap = <<FileFrame(CallSite(pc).function,
                                 FileColumns(CallSite(pc).function, "among others", 0),
                                 seeds)>>
          /\ locals = [data_frame |-> 1, returned |-> 0]
    /\ data_frame = heap
    /\ args = <<>>
    /\ result = None
    /\ files = NoFiles
    /\ io = NoIO
    /\ ncalls = 0
    /\ stack = <<>>

\* A call of run_study, or of a get_* function, is made: the callee starts
\* with the caller's object as its data_frame.
Call ==
    /\ pc \in CallSites /\ stack = <<>>
    /\ LET site == CallSite(pc)
       IN  /\ stack' = <<[line |-> pc, locals |-> locals]>>
           /\ locals' = Entered(site.function, locals[site.input])
           /\ args' = <<site.function, locals[site.input]>> \o site.columns
           /\ pc' = Lines(site.function)[1]
    /\ data_frame' = heap
    /\ UNCHANGED <<heap, result, files, io, ncalls>>

\* create_subset, lines 79-81: subset = pd.DataFrame(data_frame[mask])
\* remove_outliers, lines 692-693: pd.DataFrame(data_frame[mask])
BooleanIndex ==
    /\ pc \in {"79", "692"}
    /\ LET table == heap[locals.data_frame]
           mask == IF pc = "79" THEN subset_mask(table, args[3], args[4])
                   ELSE fence_mask(table, args[3], locals.minimum, locals.maximum)
           made == boolean_index(heap, locals.data_frame, mask)
       IN  /\ heap' = made.heap
           /\ locals' = IF pc = "79" THEN [locals EXCEPT !.subset = made.ref]
                        ELSE [locals EXCEPT !.returned = made.ref]
    /\ pc' = NextLine(args[1], pc)
    /\ UNCHANGED <<data_frame, args, result, files, io, ncalls, stack>>

\* remove_outliers, lines 683-689: the percentiles and the fence.
Fence ==
    /\ pc = "683"
    /\ \E f \in fences(heap[locals.data_frame], args[3]) :
        IF IsRaised(f)
        THEN /\ pc' = "raise"
             /\ result' = f
             /\ locals' = locals
        ELSE /\ pc' = NextLine(args[1], pc)
             /\ result' = result
             /\ locals' = [locals EXCEPT !.minimum = f.minimum,
                                         !.maximum = f.maximum]
    /\ UNCHANGED <<data_frame, args, files, io, ncalls, stack, heap>>

\* Lines 445, 476, 515: data_frame = data_frame[list(column_map.keys())]
ColumnIndex ==
    /\ pc \in {"445", "476", "515"}
    /\ LET made == column_index(heap, locals.data_frame, keys(ColumnMapOf(args[1])))
       IN  /\ heap' = made.heap
           /\ locals' = [locals EXCEPT !.data_frame = made.ref]
    /\ pc' = NextLine(args[1], pc)
    /\ UNCHANGED <<data_frame, args, result, files, io, ncalls, stack>>

\* Lines 448, 479, 518: data_frame = data_frame.rename(index=str, columns=column_map)
Rename ==
    /\ pc \in {"448", "479", "518"}
    /\ LET made == rename_copy(heap, locals.data_frame, ColumnMapOf(args[1]))
       IN  /\ heap' = made.heap
           /\ locals' = [locals EXCEPT !.data_frame = made.ref]
    /\ pc' = NextLine(args[1], pc)
    /\ UNCHANGED <<data_frame, args, result, files, io, ncalls, stack>>

\* Lines 84-85, 86, 488, 521-523: a column of the function's own table is set.
SetItem ==
    /\ pc \in {"84", "86", "488", "521"}
    /\ LET ref == IF pc \in {"84", "86"} THEN locals.subset ELSE locals.data_frame
           table == heap[ref]
       IN  heap' =
             CASE pc = "84" ->
                    setitem(heap, ref, args[5],
                            determine_percentage(Series(table, args[3]),
                                                 Series(table, args[4])))
               [] pc = "86" ->
                    setitem(heap, ref, args[6],
                            [i \in DOMAIN table.data |->
                                CellRSub(1, Series(table, args[5])[i])])
               [] pc = "488" ->
                    setitem(heap, ref, "return_count",
                            astype_int(Series(table, "return_count")))
               [] OTHER ->
                    setitem(heap, ref, AVERAGE_INCOME,
                            Series(add_average_income(table), AVERAGE_INCOME))
    /\ pc' = NextLine(args[1], pc)
    /\ UNCHANGED <<data_frame, args, result, files, io, ncalls, stack, locals>>

\* Lines 484-485: data_frame[agi_column].replace(key, ..., inplace=True) for
\* each key, which reaches the table the column belongs to.
ReplaceInPlace ==
    /\ pc = "484"
    /\ heap' = setitem(heap, locals.data_frame, "agi_limit",
                       replace_each(Series(heap[locals.data_frame], "agi_limit"),
                                    value_map, Len(value_map)))
    /\ pc' = NextLine(args[1], pc)
    /\ UNCHANGED <<data_frame, args, result, files, io, ncalls, stack, locals>>

\* return: the caller binds the returned object and goes on.
Return ==
    /\ pc \in {"87", "693", "449", "489", "524"}
    /\ LET frame == Head(stack)
           ref == locals[Returned(args[1])]
       IN  /\ result' = heap[ref]
           /\ locals' = [frame.locals EXCEPT ![CallSite(frame.line).out] = ref]
           /\ pc' = NextLine("run_study", frame.line)
    /\ stack' = Tail(stack)
    /\ ncalls' = ncalls + 1
    /\ UNCHANGED <<data_frame, args, files, io, heap>>

\* Lines 721-723: a subset variable is rebound to its join with income.
MergeInto ==
    /\ pc \in {"721", "722", "723"}
    /\ LET t == CASE pc = "721" -> "african_vs_caucasian"
                  [] pc = "722" -> "african_vs_latino"
                  [] OTHER -> "caucasian_vs_latino"
           made == Alloc(heap, merge(heap[locals[t]], heap[locals.income], ZIP_CODE))
       IN  /\ heap' = made.heap
           /\ locals' = [locals EXCEPT ![t] = made.ref]
    /\ pc' = NextLine("run_study", pc)
    /\ UNCHANGED <<data_frame, args, result, files, io, ncalls, stack>>

NextPure ==
    \/ Call
    \/ BooleanIndex
    \/ Fence
    \/ ColumnIndex
    \/ Rename
    \/ SetItem
    \/ ReplaceInPlace
    \/ Return
    \/ MergeInto

SpecPure == InitPure /\ [][NextPure]_vars

(***************************************************************************)
(* Claims about the purity of the transforms, under SpecPure.              *)
(***************************************************************************)
\* Every object that existed when the last call was made is as it was then.
C13_InputsUnchanged ==
    \A ref \in DOMAIN data_frame : heap[ref] = data_frame[ref]

\* What a call returned is the value of the function on the table it was
\* handed, as that table was when the call was made.
C13_ValueOfInput ==
    ncalls > 0 /\ stack = <<>> =>
        LET table == data_frame[args[2]]
        IN  CASE args[1] = "create_subset" ->
                    result = create_subset(table, args[3], args[4], args[5], args[6])
              [] args[1] = "remove_outliers" ->
                    result \in remove_outliers(table, args[3])
              [] args[1] = "modify_demographic_data" ->
                    result = modify_demographic_data(table)
              [] args[1] = "modify_income_data_with_agi" ->
                    result = modify_income_data_with_agi(table)
              [] OTHER -> result = modify_income_data_without_agi(table)

\* A step leaves the tables the caller started with (demographics and
\* income, or the table read from the file) as they are: each of the three
\* create_subset calls and each of the three merges sees the original.
C13_OriginalsKept ==
    \A ref \in DOMAIN heap : ref <= 2 => heap'[ref] = heap[ref]

\* C13: each transform (create_subset, remove_outliers, the three column
\* projections and the value-code substitution) is pure: after the call the
\* caller's input table has the same columns, rows and values as before it,
\* and the three create_subset calls on demographics and the three merges
\* on income each see the original table.
C13_TransformsPure ==
    /\ [](C13_InputsUnchanged /\ C13_ValueOfInput)
    /\ [][C13_OriginalsKept]_vars

\* C13 witness: the three create_subset calls and the three merges have run,
\* the last subset without a row of demographics, and remove_outliers is
\* about to be called.
C13_Witness ==
    /\ pc = "726"
    /\ ncalls = 3
    /\ Len(result.data) < Len(heap[1].data)
    /\ Len(heap[locals.caucasian_vs_latino].data) > 0

(***************************************************************************)
(* Claims about the order of the steps of run_study, under SpecStudy.      *)
(***************************************************************************)
\* The pairing a model belongs to: its two count columns and its two
\* fraction columns.
OwnPairing(model) ==
    CASE model = "african_vs_caucasian_model" ->
            <<AFRICAN, CAUCASIAN, PCNT_AFRICAN, PCNT_CAUCASIAN>>
      [] model = "african_vs_latino_model" ->
            <<AFRICAN, LATINO, PCNT_AFRICAN, PCNT_LATINO>>
      [] OTHER -> <<CAUCASIAN, LATINO, PCNT_CAUCASIAN, PCNT_LATINO>>

\* Entry k of the trace is a create_model call whose table was bound by a
\* remove_outliers call on average_income, whose table was bound by a merge
\* with income on zip_code, whose table was bound by a create_subset call of
\* the model's own pairing, whose table was bound by the projection; each
\* of these ran before the next.
FitAfterAllSteps(k) ==
    LET fit == io[k]
        o == Producer(k, fit.input[1])
        m == Producer(o, io[o].input[1])
        c == Producer(m, io[m].input[1])
        d == Producer(c, io[c].input[1])
    IN  /\ fit.call = "create_model"
        /\ o > 0 /\ io[o].call = "remove_outliers"
        /\ io[o].columns = <<AVERAGE_INCOME>>
        /\ m > 0 /\ io[m].call = "merge"
        /\ io[m].input[2] = "income" /\ io[m].columns = <<ZIP_CODE>>
        /\ io[Producer(m, "income")].call = "modify_income_data_without_agi"
        /\ c > 0 /\ io[c].call = "create_subset"
        /\ io[c].columns = OwnPairing(fit.out)
        /\ fit.columns[1] \in {io[c].columns[3], io[c].columns[4]}
        /\ d > 0 /\ io[d].call = "get_demographic_data"
        /\ d < c /\ c < m /\ m < o /\ o < k

\* The model that was just fit has the x and y values of an outlier-removed
\* join with income of the subset of demographics of its own pairing.
FitOnOwnTable ==
    LET pairing == OwnPairing(io[Len(io)].out)
        joined == merge(create_subset(locals.demographics, pairing[1], pairing[2],
                                      pairing[3], pairing[4]),
                        locals.income, ZIP_CODE)
    IN  \E table \in remove_outliers(joined, AVERAGE_INCOME) :
            /\ IsFrame(table)
            /\ result.fit_x = Series(table, io[Len(io)].columns[1])
            /\ result.fit_y = Series(table, AVERAGE_INCOME)

\* C14: for each pairing the steps run in the order projection, create_subset,
\* merge with income on zip_code, remove_outliers on average_income,
\* create_model, plot_model; every model is fit on the outlier-removed
\* joined table of its own pairing, and every plot is drawn from the table
\* and the x column its model was fit on.
C14_StepOrder ==
    /\ LastCall("create_model") /\ ~IsRaised(result) =>
           /\ FitAfterAllSteps(Len(io))
           /\ FitOnOwnTable
    /\ LastCall("plot_model") =>
           LET plot == io[Len(io)]
               fit == Producer(Len(io), plot.input[2])
           IN  /\ fit > 0 /\ FitAfterAllSteps(fit)
               /\ io[fit].input[1] = plot.input[1]
               /\ Producer(fit, plot.input[1]) = Producer(Len(io), plot.input[1])
               /\ io[fit].columns = plot.columns
               /\ ~IsRaised(result)
               /\ result.scatter_x = result.line.fit_x
               /\ result.scatter_y = result.line.fit_y

\* C14 witness: the last of the three plots has been drawn, from a table
\* that has rows.
C14_Witness ==
    /\ pc = "end"
    /\ LastCall("plot_model")
    /\ Len(result.scatter_x) > 0
    /\ Cardinality({k \in DOMAIN io : io[k].call = "plot_model"}) = 3

(***************************************************************************)
(* Claims about the income table with and without the cache files, under   *)
(* SpecStudy.                                                              *)
(***************************************************************************)
\* get_income_data_without_agi(zip_codes) as one call, on the files fs: what
\* it returns.
get_income_data_without_agi(fs, zip_codes) ==
    LET ny == get_ny_without_agi(fs)
        nyc == get_nyc_without_agi(ny.files, ny.ret, Range(zip_codes))
    IN  IF IsRaised(ny.ret) THEN ny.ret
        ELSE IF IsRaised(nyc.ret) THEN nyc.ret
        ELSE modify_income_data_without_agi(nyc.ret)

\* Two tables have the same column names, and the same rows with the same
\* values in the same order.
SameContent(a, b) ==
    /\ IsFrame(a) /\ IsFrame(b)
    /\ a.columns = b.columns
    /\ a.data = b.data

\* The first call, in perform_test, found neither cache file and wrote both.
FirstCallComputed ==
    \E j, k \in DOMAIN io :
        /\ io[j].at = "538.222" /\ io[j].on = {"STATE"}
        /\ io[k].at = "538.223" /\ io[k].on = {"ZIPCODE"}

====
